---- MODULE Spec2Model ----
(***************************************************************************)
(* The payload submission pipeline of stellAIverse-backend:                *)
(*   SubmitterService        (src/unnamed/part_004)                        *)
(*   SubmissionBatchService  (src/src/oracle/services/                     *)
(*                            submission-batch.service.ts)                 *)
(* Both services share one Repository<SignedPayload> (the store).  Every   *)
(* async method is a task; a task takes one step per `await`: the step     *)
(* is the completion of the awaited store / chain call together with the   *)
(* synchronous code that follows it up to the next await.                  *)
(***************************************************************************)
EXTENDS Integers, Sequences, FiniteSets, Bags, TLC

\* ------------------------------------------------------------------ bounds
MaxTime == 1        \* the clock runs 0..MaxTime
MaxOps == 2         \* entry-point calls made by the outside world
MaxTx == 2          \* transaction hashes handed out in one run
MaxWords == 3       \* words of an error message handed to categorizeFailure
MaxAttempt == 4     \* attempt numbers handed to calculateRetryDelay
MaxInitialDelay == 2 \* configured initial delays 1..MaxInitialDelay
MaxMultiplier == 3  \* configured backoff multipliers 1..MaxMultiplier
MaxDelayCap == 6    \* configured maximum delays 1..MaxDelayCap
MaxLimit == 2       \* limits 0..MaxLimit handed to getPayloadsForBatching

\* the callers of the pipeline: the upstream job scheduler and the manual
\* retry endpoint; each has at most one call outstanding
Callers == {"scheduler", "operator"}

\* ----------------------------------------------------------- configuration
\* SUBMITTER_MAX_RETRIES / SUBMISSION_MAX_RETRIES (both default '5'; the
\* tests configure 3 and 5).  The model runs SubmitterService and
\* SubmissionBatchService with 2 each.
maxRetries == 2
batchMaxRetries == 2
\* SUBMISSION_BATCH_SIZE (default '10') and the default of maxConcurrent (5);
\* the model runs with 2
batchSize == 2
maxConcurrent == 2

VARIABLES
    store,        \* payloadRepository: id -> SignedPayload record
    now,          \* the wall clock (new Date())
    tasks,        \* bag of suspended async calls (their position and locals)
    inFlight,     \* SubmissionBatchService.inFlightSubmissions (set of ids)
    chain,        \* the chain: transaction hash -> [id, receipt status]
    preserveOrder,\* SUBMISSION_PRESERVE_ORDER
    retryConfig,  \* initial delay, maximum delay and backoff multiplier
    ops,          \* entry-point calls started so far
    returned      \* what the last step handed to a caller, if it ended a call

vars == <<store, now, tasks, inFlight, chain, preserveOrder, retryConfig, ops,
          returned>>

Ids == DOMAIN store

\* ------------------------------------------------------------ error texts
\* An error message is the sequence of its words.
NoMsg == <<>>
MsgExpiredBeforeSubmission == <<"Payload", "expired", "before", "submission">>
MsgExpiredBeforeBatch == <<"Payload", "expired", "before", "batch", "submission">>
MsgExpired == <<"Payload", "expired">>
MsgNoSignature == <<"Payload", "has", "no", "signature">>
MsgReverted == <<"Transaction", "reverted", "on-chain">>
MsgReceiptNull == <<"Transaction", "receipt", "is", "null">>
MsgMonitoringFailed(m) == <<"Transaction", "monitoring", "failed:">> \o m
MsgNetworkTimeout == <<"network", "timeout">>
MsgInvalidSignature == <<"Invalid", "signature">>
MsgConnReset == <<"ECONNRESET">>

\* what the chain client may throw from a send
ChainErrors == {MsgNetworkTimeout, MsgInvalidSignature}

\* String.prototype.toLowerCase, word by word
toLowerCase(w) ==
    CASE w = "Payload" -> "payload"
      [] w = "Transaction" -> "transaction"
      [] w = "Invalid" -> "invalid"
      [] w = "ECONNRESET" -> "econnreset"
      [] w = "Network" -> "network"
      [] w = "Timeout" -> "timeout"
      [] OTHER -> w

LowerMsg(m) == [i \in 1..Len(m) |-> toLowerCase(m[i])]

\* String.prototype.includes on word sequences
includes(m, pat) ==
    \E i \in 0..(Len(m) - Len(pat)) :
        \A j \in 1..Len(pat) : m[i + j] = pat[j]

permanentPatterns ==
    { <<"expired">>, <<"invalid", "signature">>, <<"unauthorized">>,
      <<"insufficient", "funds">>, <<"nonce", "too", "low">>,
      <<"already", "submitted">>, <<"execution", "reverted">>,
      <<"vm", "exception">> }

retryablePatterns ==
    { <<"network", "error">>, <<"timeout">>, <<"econnreset">>,
      <<"socket", "hang", "up">>, <<"temporary">>,
      <<"service", "unavailable">>, <<"gateway", "error">>,
      <<"rate", "limit">> }

\* a categorizeFailure that walks the retryable list before the permanent one
categorizeFailure_RetryableFirst(m) ==
    IF \E pat \in retryablePatterns : includes(LowerMsg(m), pat)
    THEN "RETRYABLE"
    ELSE IF \E pat \in permanentPatterns : includes(LowerMsg(m), pat)
         THEN "PERMANENT"
         ELSE "RETRYABLE"

\* categorizeFailure (identical in both services)
categorizeFailure(m) ==
    IF \E pat \in permanentPatterns : includes(LowerMsg(m), pat)
    THEN "PERMANENT"
    ELSE IF \E pat \in retryablePatterns : includes(LowerMsg(m), pat)
         THEN "RETRYABLE"
         ELSE "RETRYABLE"

isRetryableError(m) == categorizeFailure(m) = "RETRYABLE"

\* ------------------------------------------------------------ retry delay
\* SUBMITTER_INITIAL_RETRY_DELAY, SUBMITTER_MAX_RETRY_DELAY (parseInt) and
\* SUBMITTER_RETRY_BACKOFF_MULTIPLIER (parseFloat) with their defaults;
\* SubmissionBatchService reads the same three under SUBMISSION_ names with
\* the same defaults.  The model runs both services on one configuration.
defaultRetryConfig ==
    [initialRetryDelay |-> 1000, maxRetryDelay |-> 60000,
     backoffMultiplier |-> 2]

\* Math.pow for a whole base and a whole exponent >= 0
RECURSIVE pow(_, _)
pow(b, e) == IF e = 0 THEN 1 ELSE b * pow(b, e - 1)

\* Math.min
min(a, b) == IF a < b THEN a ELSE b

\* a backoff that is never capped
calculateRetryDelay_Uncapped(cfg, attempt) ==
    cfg.initialRetryDelay * pow(cfg.backoffMultiplier, attempt - 1)

\* calculateRetryDelay(attempt) (the same arithmetic in both services)
calculateRetryDelay(cfg, attempt) ==
    LET delay == cfg.initialRetryDelay * pow(cfg.backoffMultiplier, attempt - 1)
    IN min(delay, cfg.maxRetryDelay)

\* ---------------------------------------------------------------- records
\* a SignedPayload as the upstream signer stores it
NewPayload(signed, exp) ==
    [status |-> "PENDING", tx |-> 0, block |-> 0, attempts |-> 0,
     err |-> NoMsg, sig |-> signed, expiresAt |-> exp]

NoPayload ==
    [status |-> "NONE", tx |-> 0, block |-> 0, attempts |-> 0,
     err |-> NoMsg, sig |-> FALSE, expiresAt |-> 0]

\* `new Date() > payload.expiresAt` / `payload.expiresAt < now`
isExpired(p, t) == t > p.expiresAt

\* an optional argument that is not given (undefined)
NoLimit == -1

\* a task: op is the method, pc the await it is suspended at, p the record
\* object it holds (with the updates made to it so far), read the record
\* as its last findOne returned it, ids the payloadIds argument, value what
\* a synchronous helper call returned, delay the timeout the task sleeps on,
\* failureType the failureType of a SubmissionResult, limit the limit
\* argument of getPayloadsForBatching
Task(op, pc, id) ==
    [op |-> op, pc |-> pc, id |-> id, p |-> NoPayload, attempt |-> 0,
     tx |-> 0, msg |-> NoMsg, ok |-> FALSE, sends |-> 0, writes |-> 0,
     n |-> 0, ret |-> "end", now0 |-> 0, queue |-> <<>>, valid |-> <<>>,
     results |-> <<>>, idx |-> 0, cid |-> 0, parent |-> 0,
     read |-> NoPayload, ids |-> <<>>, value |-> "NONE",
     delay |-> 0, failureType |-> "NONE", limit |-> NoLimit]

NoResult == Task("none", "none", 0)
Running == BagToSet(tasks)

\* the call returns (ok) or throws (~ok): what the caller gets
Done(t, ok, tx, msg) ==
    [t EXCEPT !.pc = "done", !.ok = ok, !.tx = tx, !.msg = msg,
              !.p = NoPayload, !.ret = "end", !.n = 0]

\* task t becomes u and the tasks of `spawned` start.  A finished call is
\* handed to its caller (a processWithRetry made by retryFailedPayloads
\* stays until the Promise.all of its chunk resolves); a detached task that
\* reached its end is gone.
StepSpawn(t, u, spawned) ==
    /\ tasks' = (IF u.pc = "end" \/ (u.pc = "done" /\ u.parent = 0)
                 THEN tasks (-) SetToBag({t})
                 ELSE (tasks (-) SetToBag({t})) (+) SetToBag({u}))
                (+) SetToBag(spawned)
    /\ returned' = IF u.pc = "done" /\ u.parent = 0 THEN u ELSE NoResult

Step(t, u) == StepSpawn(t, u, {})

\* ------------------------------------------------------------------ chain
\* A transaction hash is its index in `chain`; 0 is null.  The receipt the
\* transaction will get (status 1 or 0) is a fact of the chain.  A hash
\* made up by SubmissionBatchService.submitPayload names no transaction of
\* the chain: it never gets a receipt.
Receipts == {"ok", "reverted"}
MadeUp == "none"
Accept(id, r) == Append(chain, [id |-> id, receipt |-> r])
TxsOf(id) == {h \in 1..Len(chain) : chain[h].id = id}
SentTxsOf(id) == {h \in TxsOf(id) : chain[h].receipt # MadeUp}

\* ------------------------------------------------------------ the callers
EntryOps == {"submit", "retry", "pwr", "select", "batch", "retryFailed",
             "getRetryable"}
Outstanding ==
    LET EntryCalls == {t \in Running : t.op \in EntryOps /\ t.parent = 0}
        count[S \in SUBSET EntryCalls] ==
            IF S = {} THEN 0
            ELSE LET t == CHOOSE x \in S : TRUE
                 IN CopiesIn(t, tasks) + count[S \ {t}]
    IN count[EntryCalls]

CanStart ==
    /\ ops < MaxOps
    /\ Outstanding < Cardinality(Callers)

Start(t) ==
    /\ CanStart
    /\ tasks' = tasks (+) SetToBag({t})
    /\ ops' = ops + 1
    /\ returned' = NoResult
    /\ UNCHANGED <<store, now, inFlight, chain, preserveOrder, retryConfig>>

\* an id under which nothing is stored
MissingId == 0

\* a findOne that returns some record whatever the id
findOne_AnyRecord(id) == store[CHOOSE i \in Ids : TRUE]

\* payloadRepository.findOne({ where: { id } }): the record, or null
findOne(id) == IF id \in Ids THEN store[id] ELSE NoPayload

\* ---------------------------------------------- SubmitterService (part_004)
\* a caller invokes submitPayload(payloadId): the findOne is issued
StartSubmit(id) == Start(Task("submit", "sp_find", id))

\* monitorTransaction(payloadId, txHash), started and never awaited
Monitor(id, tx) == [Task("monitor", "mon_wait", id) EXCEPT !.tx = tx]

\* a submitPayload that answers a CONFIRMED record like any other record
\* that is not PENDING
isConfirmedWithHash_Omitted(p) == FALSE

\* a submitPayload that does not resume a SUBMITTED record
isSubmittedWithHash_Omitted(p) == FALSE

\* the idempotency short-circuits of submitPayload
isConfirmedWithHash(p) == p.status = "CONFIRMED" /\ p.tx # 0
isSubmittedWithHash(p) == p.status = "SUBMITTED" /\ p.tx # 0

Sees(t, p) == [t EXCEPT !.read = p]

\* findOne returns; the checks up to the first save / chain call
SubmitFind(t) ==
    /\ t.pc = "sp_find"
    /\ LET p == findOne(t.id)
           s == Sees(t, p)
       IN IF p = NoPayload
          THEN Step(t, Done(s, FALSE, 0, <<"not", "found">>))
          ELSE IF isConfirmedWithHash(p)
          THEN Step(t, Done(s, TRUE, p.tx, NoMsg))
          ELSE IF isSubmittedWithHash(p)
          THEN StepSpawn(t, Done(s, TRUE, p.tx, NoMsg), {Monitor(t.id, p.tx)})
          ELSE IF p.status # "PENDING"
          THEN Step(t, Done(s, FALSE, 0, <<"not", "in", "PENDING", "status">>))
          ELSE IF ~p.sig
          THEN Step(t, Done(s, FALSE, 0, <<"is", "not", "signed">>))
          ELSE IF isExpired(p, now)
          THEN Step(t, [s EXCEPT !.pc = "sp_save_expired",
                          !.p = [p EXCEPT !.status = "FAILED",
                                          !.err = MsgExpiredBeforeSubmission]])
          ELSE Step(t, [s EXCEPT !.pc = "sp_send", !.p = p, !.attempt = 1])
    /\ UNCHANGED <<store, now, inFlight, chain, preserveOrder, retryConfig, ops>>

\* save of the expired record, then BadRequestException
SubmitSaveExpired(t) ==
    /\ t.pc = "sp_save_expired"
    /\ store' = [store EXCEPT ![t.id] = t.p]
    /\ Step(t, Done([t EXCEPT !.writes = @ + 1], FALSE, 0,
                    <<"Payload", "has", "expired">>))
    /\ UNCHANGED <<now, inFlight, chain, preserveOrder, retryConfig, ops>>

\* an update after the send that leaves errorMessage as the failed attempts
\* set it
Submitted_KeepsError(p, h, attempt) ==
    [p EXCEPT !.tx = h, !.status = "SUBMITTED", !.attempts = attempt]

\* the record object after an accepted send (lines 258-263)
Submitted(p, h, attempt) ==
    [p EXCEPT !.tx = h, !.status = "SUBMITTED", !.attempts = attempt,
              !.err = NoMsg]

\* estimateGas (it falls back to a default, so it never throws) and then
\* oracleContract.submitPayload: the chain accepts the transaction ...
SubmitSendOk(t) ==
    /\ t.pc = "sp_send"
    /\ Len(chain) < MaxTx
    /\ \E r \in Receipts : chain' = Accept(t.id, r)
    /\ Step(t, [t EXCEPT !.pc = "sp_save_ok", !.sends = @ + 1,
                         !.tx = Len(chain) + 1,
                         !.p = Submitted(t.p, Len(chain) + 1, t.attempt)])
    /\ UNCHANGED <<store, now, inFlight, preserveOrder, retryConfig, ops>>

\* a retry loop that allows one attempt more
isLastAttempt_OneMore(attempt) == attempt > maxRetries + 1

isLastAttempt(attempt) == attempt > maxRetries

\* ... or the send throws
SubmitSendFail(t) ==
    /\ t.pc = "sp_send"
    /\ \E e \in ChainErrors :
        LET q == [t.p EXCEPT !.attempts = t.attempt, !.err = e] IN
        IF isLastAttempt(t.attempt) \/ categorizeFailure(e) = "PERMANENT"
        THEN Step(t, [t EXCEPT !.pc = "sp_save_fail", !.sends = @ + 1,
                               !.msg = e, !.p = [q EXCEPT !.status = "FAILED"]])
        ELSE Step(t, [t EXCEPT !.pc = "sp_sleep", !.sends = @ + 1,
                               !.msg = e, !.p = q,
                               !.delay = calculateRetryDelay(retryConfig,
                                                             t.attempt)])
    /\ UNCHANGED <<store, now, inFlight, chain, preserveOrder, retryConfig, ops>>

\* a backoff after which the same attempt is made again
SubmitSleep_SameAttempt(t) ==
    /\ t.pc = "sp_sleep"
    /\ Step(t, [t EXCEPT !.pc = "sp_send", !.delay = 0])
    /\ UNCHANGED <<store, now, inFlight, chain, preserveOrder, retryConfig, ops>>

\* the backoff delay has elapsed: next attempt
SubmitSleep(t) ==
    /\ t.pc = "sp_sleep"
    /\ Step(t, [t EXCEPT !.pc = "sp_send", !.attempt = @ + 1, !.delay = 0])
    /\ UNCHANGED <<store, now, inFlight, chain, preserveOrder, retryConfig, ops>>

\* save after an accepted send; the monitor is started and not awaited
SubmitSaveOk(t) ==
    /\ t.pc = "sp_save_ok"
    /\ store' = [store EXCEPT ![t.id] = t.p]
    /\ StepSpawn(t, Done([t EXCEPT !.writes = @ + 1], TRUE, t.tx, NoMsg),
                 {Monitor(t.id, t.tx)})
    /\ UNCHANGED <<now, inFlight, chain, preserveOrder, retryConfig, ops>>

\* save of the FAILED record, then the error is thrown to the caller
SubmitSaveFail(t) ==
    /\ t.pc = "sp_save_fail"
    /\ store' = [store EXCEPT ![t.id] = t.p]
    /\ Step(t, Done([t EXCEPT !.writes = @ + 1], FALSE, 0, t.msg))
    /\ UNCHANGED <<now, inFlight, chain, preserveOrder, retryConfig, ops>>

\* monitorTransaction: provider.waitForTransaction returns a receipt ...
MonitorWait(t) ==
    /\ t.pc = "mon_wait"
    /\ chain[t.tx].receipt # MadeUp
    /\ Step(t, [t EXCEPT !.pc = "mon_find",
                         !.ok = (chain[t.tx].receipt = "ok")])
    /\ UNCHANGED <<store, now, inFlight, chain, preserveOrder, retryConfig, ops>>

\* ... or returns null / throws: the catch block issues its findOne
MonitorWaitThrows(t) ==
    /\ t.pc = "mon_wait"
    /\ Step(t, [t EXCEPT !.pc = "mon_catch_find",
                         !.msg = MsgMonitoringFailed(MsgReceiptNull)])
    /\ UNCHANGED <<store, now, inFlight, chain, preserveOrder, retryConfig, ops>>

\* a monitor that confirms whatever the status of the receipt
Monitored_AnyReceiptConfirms(p, ok, tx) ==
    [p EXCEPT !.status = "CONFIRMED", !.block = tx, !.err = NoMsg]

\* the record read by the monitor, updated from the receipt (lines 374-392)
Monitored(p, ok, tx) ==
    IF ok
    THEN [p EXCEPT !.status = "CONFIRMED", !.block = tx, !.err = NoMsg]
    ELSE [p EXCEPT !.status = "FAILED", !.err = MsgReverted]

MonitorFind(t) ==
    /\ t.pc = "mon_find"
    /\ Step(t, [Sees(t, store[t.id]) EXCEPT !.pc = "mon_save",
                   !.p = Monitored(store[t.id], t.ok, t.tx)])
    /\ UNCHANGED <<store, now, inFlight, chain, preserveOrder, retryConfig, ops>>

MonitorCatchFind(t) ==
    /\ t.pc = "mon_catch_find"
    /\ Step(t, [Sees(t, store[t.id]) EXCEPT !.pc = "mon_save",
                   !.p = [store[t.id] EXCEPT !.status = "FAILED",
                                             !.err = t.msg]])
    /\ UNCHANGED <<store, now, inFlight, chain, preserveOrder, retryConfig, ops>>

\* the monitor's save; the detached task ends
MonitorSave(t) ==
    /\ t.pc = "mon_save"
    /\ store' = [store EXCEPT ![t.id] = t.p]
    /\ Step(t, [t EXCEPT !.pc = "end"])
    /\ UNCHANGED <<now, inFlight, chain, preserveOrder, retryConfig, ops>>

\* a caller invokes retrySubmission(payloadId)
StartRetry(id) == Start(Task("retry", "rs_find", id))

hasExceededRetries(p) == p.attempts >= maxRetries

RetryFind(t) ==
    /\ t.pc = "rs_find"
    /\ LET p == store[t.id] IN
       IF hasExceededRetries(p)
       THEN Step(t, Done(Sees(t, p), FALSE, 0,
                         <<"exceeded", "maximum", "retry", "attempts">>))
       ELSE Step(t, [Sees(t, p) EXCEPT !.pc = "rs_save",
                       !.p = [p EXCEPT !.status = "PENDING", !.err = NoMsg]])
    /\ UNCHANGED <<store, now, inFlight, chain, preserveOrder, retryConfig, ops>>

\* the reset is saved, then submitPayload(payloadId) is called
RetrySave(t) ==
    /\ t.pc = "rs_save"
    /\ store' = [store EXCEPT ![t.id] = t.p]
    /\ Step(t, [t EXCEPT !.pc = "sp_find", !.writes = @ + 1])
    /\ UNCHANGED <<now, inFlight, chain, preserveOrder, retryConfig, ops>>

\* ---------- SubmissionBatchService (oracle/services/submission-batch.service.ts)
\* markAsFailed(payloadId, errorMessage, failureType, attemptNumber = 1):
\* its findOne returns, the record read is set FAILED
MarkedFailed(p, msg, attemptNumber) ==
    [p EXCEPT !.status = "FAILED", !.err = msg, !.attempts = attemptNumber]

MarkFailedFind(t) ==
    /\ t.pc = "mf_find"
    /\ IF findOne(t.id) = NoPayload
       THEN Step(t, [t EXCEPT !.pc = t.ret, !.ret = "end", !.n = 0,
                              !.p = NoPayload, !.read = NoPayload])
       ELSE Step(t, [Sees(t, findOne(t.id)) EXCEPT !.pc = "mf_save",
                         !.p = MarkedFailed(findOne(t.id), t.msg, t.n)])
    /\ UNCHANGED <<store, now, inFlight, chain, preserveOrder, retryConfig, ops>>

\* its save; an awaiting caller resumes at t.ret, a detached call ends
MarkFailedSave(t) ==
    /\ t.pc = "mf_save"
    /\ store' = [store EXCEPT ![t.id] = t.p]
    /\ Step(t, [t EXCEPT !.pc = t.ret, !.ret = "end", !.n = 0,
                         !.p = NoPayload, !.read = NoPayload,
                         !.writes = @ + 1])
    /\ UNCHANGED <<now, inFlight, chain, preserveOrder, retryConfig, ops>>

\* its findOne or its save throws: the catch block of markAsFailed logs the
\* error, nothing is written, and the call returns as after a save
MarkFailedThrows(t) ==
    /\ t.pc \in {"mf_find", "mf_save"}
    /\ Step(t, [t EXCEPT !.pc = t.ret, !.ret = "end", !.n = 0,
                         !.p = NoPayload, !.read = NoPayload])
    /\ UNCHANGED <<store, now, inFlight, chain, preserveOrder, retryConfig, ops>>

\* a detached (never awaited) markAsFailed call, suspended at its findOne
Detached(id, msg) ==
    [Task("markAsFailed", "mf_find", id) EXCEPT !.msg = msg, !.n = 1]

\* the private submitPayload(payload) of the batch service: makes up a
\* transaction hash and updates the record object it was given
BatchSubmitted(p, h) ==
    [p EXCEPT !.status = "SUBMITTED", !.tx = h, !.attempts = @ + 1]

\* what a failing store call throws
StoreErrors == {MsgConnReset}

\* a caller invokes processWithRetry(payloadId)
StartProcessWithRetry(id) ==
    Start([Task("pwr", "pwr_find", id) EXCEPT !.attempt = 1])

isAlreadySubmitted(p) == p.status \in {"CONFIRMED", "SUBMITTED"}
isPermanentlyFailed(p) == p.status = "FAILED" /\ ~isRetryableError(p.err)

\* findOne returns: short-circuits, else submitPayload(payload) up to its save
ProcessFind(t) ==
    /\ t.pc = "pwr_find"
    /\ LET p == findOne(t.id)
           s == Sees(t, p)
       IN IF p = NoPayload
          THEN /\ Step(t, [Done(s, FALSE, 0, <<"Payload", "not", "found">>)
                             EXCEPT !.failureType = "PERMANENT"])
               /\ chain' = chain
          ELSE IF isAlreadySubmitted(p)
          THEN Step(t, Done(s, TRUE, p.tx, NoMsg)) /\ chain' = chain
          ELSE IF isPermanentlyFailed(p)
          THEN /\ Step(t, [Done(s, FALSE, 0, p.err)
                             EXCEPT !.failureType = "PERMANENT"])
               /\ chain' = chain
          ELSE /\ Len(chain) < MaxTx
               /\ chain' = Accept(t.id, MadeUp)
               /\ Step(t, [s EXCEPT !.pc = "pwr_save", !.sends = @ + 1,
                                    !.tx = Len(chain) + 1,
                                    !.p = BatchSubmitted(p, Len(chain) + 1)])
    /\ UNCHANGED <<store, now, inFlight, preserveOrder, retryConfig, ops>>

\* findOne throws: it is inside the try, so the catch block runs
ProcessFindThrows(t) ==
    /\ t.pc = "pwr_find"
    /\ \E e \in StoreErrors :
        IF categorizeFailure(e) # "RETRYABLE" \/ t.attempt >= batchMaxRetries
        THEN Step(t, [t EXCEPT !.pc = "mf_find", !.msg = e,
                               !.n = t.attempt, !.ret = "pwr_failed"])
        ELSE Step(t, [t EXCEPT !.pc = "pwr_sleep", !.msg = e,
                               !.delay = calculateRetryDelay(retryConfig,
                                                             t.attempt)])
    /\ UNCHANGED <<store, now, inFlight, chain, preserveOrder, retryConfig, ops>>

\* the save returns: clearInFlight, success
ProcessSaveOk(t) ==
    /\ t.pc = "pwr_save"
    /\ store' = [store EXCEPT ![t.id] = t.p]
    /\ inFlight' = inFlight \ {t.id}
    /\ Step(t, Done([t EXCEPT !.writes = @ + 1], TRUE, t.tx, NoMsg))
    /\ UNCHANGED <<now, chain, preserveOrder, retryConfig, ops>>

\* the save throws: the catch block marks the record failed or backs off
ProcessSaveFail(t) ==
    /\ t.pc = "pwr_save"
    /\ \E e \in StoreErrors :
        IF categorizeFailure(e) # "RETRYABLE" \/ t.attempt >= batchMaxRetries
        THEN Step(t, [t EXCEPT !.pc = "mf_find", !.msg = e, !.tx = 0,
                               !.n = t.attempt, !.ret = "pwr_failed"])
        ELSE Step(t, [t EXCEPT !.pc = "pwr_sleep", !.msg = e, !.tx = 0,
                               !.p = NoPayload,
                               !.delay = calculateRetryDelay(retryConfig,
                                                             t.attempt)])
    /\ UNCHANGED <<store, now, inFlight, chain, preserveOrder, retryConfig, ops>>

ProcessSleep(t) ==
    /\ t.pc = "pwr_sleep"
    /\ Step(t, [t EXCEPT !.pc = "pwr_find", !.attempt = @ + 1, !.delay = 0])
    /\ UNCHANGED <<store, now, inFlight, chain, preserveOrder, retryConfig, ops>>

\* markAsFailed has returned: clearInFlight, failure result
ProcessFailed(t) ==
    /\ t.pc = "pwr_failed"
    /\ inFlight' = inFlight \ {t.id}
    /\ Step(t, [Done(t, FALSE, 0, t.msg)
                  EXCEPT !.failureType = categorizeFailure(t.msg)])
    /\ UNCHANGED <<store, now, chain, preserveOrder, retryConfig, ops>>

\* ids in ascending order (createdAt ASC: ids are handed out in creation order)
RECURSIVE Ascending(_)
Ascending(S) ==
    IF S = {} THEN <<>>
    ELSE LET m == CHOOSE x \in S : \A y \in S : x <= y
         IN <<m>> \o Ascending(S \ {m})

Take(s, k) == SubSeq(s, 1, IF Len(s) < k THEN Len(s) ELSE k)
Range(s) == {s[i] : i \in 1..Len(s)}
\* the orders in which the store may return the records of a set of ids
Orders(S) == {s \in [1..Cardinality(S) -> S] : Range(s) = S}

\* a caller invokes getPayloadsForBatching(): `now` is taken, find is issued
StartSelect == Start([Task("select", "gp_find", 0) EXCEPT !.now0 = now])

\* where: { status: PENDING, signature: In([null, '']) }
isBatchCandidate(p) == p.status = "PENDING" /\ ~p.sig

\* a caller invokes getPayloadsForBatching(limit)
StartSelectLimit(limit) ==
    Start([Task("select", "gp_find", 0) EXCEPT !.now0 = now, !.limit = limit])

\* a selection that ignores its limit argument
effectiveBatchSize_AlwaysDefault(limit) == batchSize

\* const batchSize = limit || this.batchSize  (0 and undefined are falsy)
effectiveBatchSize(limit) ==
    IF limit = NoLimit \/ limit = 0 THEN batchSize ELSE limit

\* a selection whose filter does not look at the in-flight set
SelectFind_IgnoresInFlight(t) ==
    /\ t.pc = "gp_find"
    /\ LET payloads == Take(Ascending({i \in Ids : isBatchCandidate(store[i])}),
                            effectiveBatchSize(t.limit) * 2)
           expired == {i \in Range(payloads) : store[i].expiresAt < t.now0}
           validPayloads == SelectSeq(payloads, LAMBDA i : i \notin expired)
           result == Take(validPayloads, effectiveBatchSize(t.limit))
       IN /\ inFlight' = IF preserveOrder THEN inFlight \cup Range(result)
                                          ELSE inFlight
          /\ StepSpawn(t, [Done(t, TRUE, 0, NoMsg) EXCEPT !.results = result,
                                                          !.now0 = 0],
                       {Detached(i, MsgExpiredBeforeBatch) : i \in expired})
    /\ UNCHANGED <<store, now, chain, preserveOrder, retryConfig, ops>>

\* find returns; the filter, the slice and the marking run without an await
SelectFind(t) ==
    /\ t.pc = "gp_find"
    /\ LET payloads == Take(Ascending({i \in Ids : isBatchCandidate(store[i])}),
                            effectiveBatchSize(t.limit) * 2)
           expired == {i \in Range(payloads) : store[i].expiresAt < t.now0}
           validPayloads == SelectSeq(payloads,
                               LAMBDA i : i \notin expired /\ i \notin inFlight)
           result == Take(validPayloads, effectiveBatchSize(t.limit))
       IN /\ inFlight' = IF preserveOrder THEN inFlight \cup Range(result)
                                          ELSE inFlight
          /\ StepSpawn(t, [Done(t, TRUE, 0, NoMsg) EXCEPT !.results = result,
                                                          !.now0 = 0],
                       {Detached(i, MsgExpiredBeforeBatch) : i \in expired})
    /\ UNCHANGED <<store, now, chain, preserveOrder, retryConfig, ops>>

\* the loop of validatePayloadsForBatch from the head of `queue` up to its
\* next await (a markAsFailed call, mf # NoMsg) or its end
RECURSIVE ValidateRun(_, _, _, _)
ValidateRun(queue, valid, infl, t0) ==
    IF queue = <<>>
    THEN [queue |-> queue, valid |-> valid, infl |-> infl, mf |-> NoMsg]
    ELSE LET it == Head(queue) IN
         IF it.p.expiresAt < t0
         THEN [queue |-> queue, valid |-> valid, infl |-> infl,
               mf |-> MsgExpired]
         ELSE IF isAlreadySubmitted(it.p)
         THEN ValidateRun(Tail(queue), valid, infl, t0)
         ELSE IF ~it.p.sig
         THEN [queue |-> queue, valid |-> valid, infl |-> infl,
               mf |-> MsgNoSignature]
         ELSE IF it.id \in infl
         THEN ValidateRun(Tail(queue), valid, infl, t0)
         ELSE ValidateRun(Tail(queue), Append(valid, it), infl \cup {it.id}, t0)

\* the task after such a run: awaiting markAsFailed, returning the empty
\* batch result, or ready to dispatch the valid payloads
Validated(t, r, t0) ==
    IF r.mf # NoMsg
    THEN [t EXCEPT !.pc = "mf_find", !.id = Head(r.queue).id, !.msg = r.mf,
                   !.n = 1, !.ret = "vb_loop", !.queue = Tail(r.queue),
                   !.valid = r.valid, !.now0 = t0]
    ELSE IF r.valid = <<>>
    THEN Done([t EXCEPT !.queue = <<>>, !.id = 0, !.now0 = 0], TRUE, 0, NoMsg)
    ELSE [t EXCEPT !.pc = IF preserveOrder THEN "seq_next" ELSE "con_start",
                   !.id = 0, !.queue = <<>>, !.valid = r.valid, !.idx = 1,
                   !.now0 = 0, !.msg = NoMsg]

\* the id lists a caller may pass
IdLists == UNION {Orders(S) : S \in SUBSET Ids \ {{}}}

\* a caller invokes processBatch(payloadIds): validatePayloadsForBatch
\* issues its find
StartBatch(ids) ==
    Start([Task("batch", "vb_find", 0) EXCEPT !.queue = ids, !.ids = ids])

\* find returns the records in some order; `now` is taken; the loop starts
ValidateFind(t) ==
    /\ t.pc = "vb_find"
    /\ \E order \in Orders(Range(t.queue)) :
        LET found == [k \in 1..Len(order) |->
                        [id |-> order[k], p |-> store[order[k]],
                         st |-> "pending", msg |-> NoMsg]]
            r == ValidateRun(found, <<>>, inFlight, now)
        IN /\ inFlight' = r.infl
           /\ Step(t, Validated(t, r, now))
    /\ UNCHANGED <<store, now, chain, preserveOrder, retryConfig, ops>>

\* find throws: nothing catches it in validatePayloadsForBatch or in
\* processBatch, the caller of processBatch gets the error
ValidateFindThrows(t) ==
    /\ t.pc = "vb_find"
    /\ \E e \in StoreErrors :
        Step(t, Done([t EXCEPT !.queue = <<>>], FALSE, 0, e))
    /\ UNCHANGED <<store, now, inFlight, chain, preserveOrder, retryConfig, ops>>

\* markAsFailed returned to the loop
ValidateLoop(t) ==
    /\ t.pc = "vb_loop"
    /\ LET r == ValidateRun(t.queue, t.valid, inFlight, t.now0)
       IN /\ inFlight' = r.infl
          /\ Step(t, Validated(t, r, t.now0))
    /\ UNCHANGED <<store, now, chain, preserveOrder, retryConfig, ops>>

Result(it, ok) ==
    [id |-> it.id, ok |-> ok, tx |-> IF ok THEN it.p.tx ELSE 0, msg |-> it.msg]

\* processSequentially: submitPayload(payload) of item idx, up to its save
SequentialSubmit(t) ==
    /\ t.pc = "seq_next"
    /\ Len(chain) < MaxTx
    /\ chain' = Accept(t.valid[t.idx].id, MadeUp)
    /\ Step(t, [t EXCEPT !.pc = "seq_save", !.sends = @ + 1,
                  !.valid[t.idx].p = BatchSubmitted(@, Len(chain) + 1)])
    /\ UNCHANGED <<store, now, inFlight, preserveOrder, retryConfig, ops>>

\* the save returns: the result is pushed, sleep(100) starts
SequentialSaveOk(t) ==
    /\ t.pc = "seq_save"
    /\ store' = [store EXCEPT ![t.valid[t.idx].id] = t.valid[t.idx].p]
    /\ Step(t, [t EXCEPT !.pc = "seq_sleep", !.writes = @ + 1,
                  !.results = Append(@, Result(t.valid[t.idx], TRUE))])
    /\ UNCHANGED <<now, inFlight, chain, preserveOrder, retryConfig, ops>>

\* a catch block that neither marks the payload failed nor records a result
SequentialSaveFail_SkipsItem(t) ==
    /\ t.pc = "seq_save"
    /\ Step(t, [t EXCEPT !.pc = "seq_sleep"])
    /\ UNCHANGED <<store, now, inFlight, chain, preserveOrder, retryConfig, ops>>

\* the save throws: the catch block awaits markAsFailed
SequentialSaveFail(t) ==
    /\ t.pc = "seq_save"
    /\ \E e \in StoreErrors :
        Step(t, [t EXCEPT !.pc = "mf_find", !.msg = e, !.n = 1,
                          !.id = t.valid[t.idx].id, !.ret = "seq_failed",
                          !.valid[t.idx].msg = e])
    /\ UNCHANGED <<store, now, inFlight, chain, preserveOrder, retryConfig, ops>>

\* a processSequentially whose catch block ends the loop
SequentialFailed_Aborts(t) ==
    /\ t.pc = "seq_failed"
    /\ Step(t, [Done([t EXCEPT !.valid = <<>>, !.idx = 0, !.id = 0],
                      TRUE, 0, NoMsg)
                  EXCEPT !.results = Append(@, Result(t.valid[t.idx], FALSE))])
    /\ UNCHANGED <<store, now, inFlight, chain, preserveOrder, retryConfig, ops>>

SequentialFailed(t) ==
    /\ t.pc = "seq_failed"
    /\ Step(t, [t EXCEPT !.pc = "seq_sleep", !.id = 0, !.msg = NoMsg,
                  !.results = Append(@, Result(t.valid[t.idx], FALSE))])
    /\ UNCHANGED <<store, now, inFlight, chain, preserveOrder, retryConfig, ops>>

\* the pacing sleep is over: next item, or processBatch clears the
\* in-flight marks of the processed payloads and returns
SequentialSleep(t) ==
    /\ t.pc = "seq_sleep"
    /\ IF t.idx < Len(t.valid)
       THEN /\ Step(t, [t EXCEPT !.pc = "seq_next", !.idx = @ + 1])
            /\ inFlight' = inFlight
       ELSE /\ Step(t, Done([t EXCEPT !.valid = <<>>, !.idx = 0],
                            TRUE, 0, NoMsg))
            /\ inFlight' = inFlight \ {t.valid[k].id : k \in 1..Len(t.valid)}
    /\ UNCHANGED <<store, now, chain, preserveOrder, retryConfig, ops>>

\* processConcurrently: every submitPayload(payload) runs up to its save
\* (the first dispatch of a run is never held back by MaxTx, whatever its size)
ConcurrentStart(t) ==
    /\ t.pc = "con_start"
    /\ Len(chain) + Len(t.valid) <= MaxTx \/ chain = <<>>
    /\ chain' = chain \o [k \in 1..Len(t.valid) |->
                             [id |-> t.valid[k].id, receipt |-> MadeUp]]
    /\ Step(t, [t EXCEPT !.pc = "con_save", !.sends = Len(t.valid),
            !.valid = [k \in 1..Len(t.valid) |->
                [t.valid[k] EXCEPT !.p = BatchSubmitted(@, Len(chain) + k)]]])
    /\ UNCHANGED <<store, now, inFlight, preserveOrder, retryConfig, ops>>

ConcurrentSaveOk(t, k) ==
    /\ t.pc = "con_save"
    /\ t.valid[k].st = "pending"
    /\ store' = [store EXCEPT ![t.valid[k].id] = t.valid[k].p]
    /\ Step(t, [t EXCEPT !.valid[k].st = "fulfilled", !.writes = @ + 1])
    /\ UNCHANGED <<now, inFlight, chain, preserveOrder, retryConfig, ops>>

ConcurrentSaveFail(t, k) ==
    /\ t.pc = "con_save"
    /\ t.valid[k].st = "pending"
    /\ \E e \in StoreErrors :
        Step(t, [t EXCEPT !.valid[k].st = "rejected", !.valid[k].msg = e])
    /\ UNCHANGED <<store, now, inFlight, chain, preserveOrder, retryConfig, ops>>

\* allSettled: the results are mapped, a markAsFailed is fired (not awaited)
\* for each rejection, processBatch clears the in-flight marks and returns
ConcurrentSettled(t) ==
    /\ t.pc = "con_save"
    /\ \A k \in 1..Len(t.valid) : t.valid[k].st # "pending"
    /\ StepSpawn(t,
         [Done([t EXCEPT !.valid = <<>>, !.idx = 0], TRUE, 0, NoMsg)
            EXCEPT !.results = [k \in 1..Len(t.valid) |->
                      Result(t.valid[k], t.valid[k].st = "fulfilled")]],
         {Detached(t.valid[k].id, t.valid[k].msg) :
            k \in {j \in 1..Len(t.valid) : t.valid[j].st = "rejected"}})
    /\ inFlight' = inFlight \ {t.valid[k].id : k \in 1..Len(t.valid)}
    /\ UNCHANGED <<store, now, chain, preserveOrder, retryConfig, ops>>

\* getRetryablePayloads(): FAILED records, at most batchSize of them, then
\* the filter.  The runs are shorter than the 24 hours of maxAge, so
\* notTooOld holds of every record; `order` is the order of the find.
hasAttemptsLeft(p) == p.attempts < batchMaxRetries
getRetryablePayloads(order) ==
    SelectSeq(Take(order, batchSize),
              LAMBDA i : isRetryableError(store[i].err)
                         /\ hasAttemptsLeft(store[i]))

\* a processWithRetry(p.id) call made by retryFailedPayloads
Child(id, cid) ==
    [Task("pwr", "pwr_find", id) EXCEPT !.attempt = 1, !.parent = cid]

\* a caller invokes retryFailedPayloads(payloadIds?); <<>> is "no ids"
StartRetryFailed(ids) ==
    Start([Task("retryFailed", "rf_find", 0)
             EXCEPT !.queue = ids, !.ids = ids, !.cid = ops + 1])

\* the chunk at the head of `payloads` is started: Promise.all over
\* processWithRetry of each
ChunkStarted(t, payloads) ==
    StepSpawn(t, [t EXCEPT !.pc = "rf_wait",
                    !.valid = Take(payloads, maxConcurrent),
                    !.queue = SubSeq(payloads, maxConcurrent + 1,
                                     Len(payloads))],
              {Child(i, t.cid) : i \in Range(Take(payloads, maxConcurrent))})

\* the find (by ids, or of getRetryablePayloads) returns
RetryFailedFind(t) ==
    /\ t.pc = "rf_find"
    /\ \E order \in IF t.queue # <<>>
                     THEN Orders(Range(t.queue))
                     ELSE Orders({i \in Ids : store[i].status = "FAILED"}) :
        LET payloads == IF t.queue # <<>> THEN order
                        ELSE getRetryablePayloads(order)
        IN IF payloads = <<>>
           THEN Step(t, Done([t EXCEPT !.queue = <<>>], TRUE, 0, NoMsg))
           ELSE ChunkStarted(t, payloads)
    /\ UNCHANGED <<store, now, inFlight, chain, preserveOrder, retryConfig, ops>>

\* the find throws: nothing catches it in getRetryablePayloads or in
\* retryFailedPayloads, the caller gets the error
RetryFailedFindThrows(t) ==
    /\ t.pc = "rf_find"
    /\ \E e \in StoreErrors :
        Step(t, Done([t EXCEPT !.queue = <<>>], FALSE, 0, e))
    /\ UNCHANGED <<store, now, inFlight, chain, preserveOrder, retryConfig, ops>>

ChildOf(t, id) ==
    CHOOSE c \in Running : c.pc = "done" /\ c.parent = t.cid /\ c.id = id

\* every processWithRetry of the chunk has returned: their results are pushed
RetryFailedGather(t) ==
    /\ t.pc = "rf_wait"
    /\ \A k \in 1..Len(t.valid) :
         \E c \in Running : c.pc = "done" /\ c.parent = t.cid /\ c.id = t.valid[k]
    /\ LET results == [k \in 1..Len(t.valid) |->
                         [id |-> t.valid[k], ok |-> ChildOf(t, t.valid[k]).ok,
                          tx |-> ChildOf(t, t.valid[k]).tx,
                          msg |-> ChildOf(t, t.valid[k]).msg]]
           children == {ChildOf(t, t.valid[k]) : k \in 1..Len(t.valid)}
           u == [t EXCEPT !.results = @ \o results, !.valid = <<>>]
           v == IF t.queue # <<>> THEN [u EXCEPT !.pc = "rf_sleep"]
                ELSE Done(u, TRUE, 0, NoMsg)
       IN /\ tasks' = IF v.pc = "done" /\ v.parent = 0
                      THEN (tasks (-) SetToBag({t})) (-) SetToBag(children)
                      ELSE ((tasks (-) SetToBag({t})) (-) SetToBag(children))
                           (+) SetToBag({v})
          /\ returned' = IF v.pc = "done" /\ v.parent = 0 THEN v ELSE NoResult
    /\ UNCHANGED <<store, now, inFlight, chain, preserveOrder, retryConfig, ops>>

\* sleep(500) between chunks is over: the next chunk is started.  A second
\* chunk takes more than maxConcurrent payloads; the stores of Init and
\* LiveInit hold no more than that, so this step is no disjunct of Next.
RetryFailedSleep(t) ==
    /\ t.pc = "rf_sleep"
    /\ ChunkStarted(t, t.queue)
    /\ UNCHANGED <<store, now, inFlight, chain, preserveOrder, retryConfig, ops>>

\* the 24 hours of maxAge (24 * 60 * 60 * 1000 ms), in ticks of the clock
maxAgeWindow == 2

\* a stored record together with its updatedAt column
StoredAt(p, u) ==
    [f \in DOMAIN p \cup {"updatedAt"} |->
        IF f = "updatedAt" THEN u ELSE p[f]]

\* a filter that keeps records of any age
notTooOld_AnyAge(p, maxAge) == TRUE

\* const notTooOld = p.updatedAt > maxAge
notTooOld(p, maxAge) == p.updatedAt > maxAge

\* order: { updatedAt: 'ASC' }: the orders of S the store may answer with
ByUpdatedAt(S) ==
    {s \in Orders(S) :
        \A i, j \in 1..Len(s) :
            i < j => store[s[i]].updatedAt <= store[s[j]].updatedAt}

\* a caller invokes getRetryablePayloads(limit): maxAge is computed from
\* Date.now(), the find is issued
StartGetRetryable(limit) ==
    Start([Task("getRetryable", "gr_find", 0)
             EXCEPT !.now0 = now, !.limit = limit])

\* the find returns the FAILED records, oldest update first, at most
\* limit || batchSize of them; the filter runs on what was fetched
GetRetryableFind(t) ==
    /\ t.pc = "gr_find"
    /\ \E order \in ByUpdatedAt({i \in Ids : store[i].status = "FAILED"}) :
        LET payloads == Take(order, effectiveBatchSize(t.limit))
            maxAge == t.now0 - maxAgeWindow
            result == SelectSeq(payloads,
                        LAMBDA i : /\ isRetryableError(store[i].err)
                                   /\ hasAttemptsLeft(store[i])
                                   /\ notTooOld(store[i], maxAge))
        IN Step(t, [Done(t, TRUE, 0, NoMsg) EXCEPT !.results = result])
    /\ UNCHANGED <<store, now, inFlight, chain, preserveOrder, retryConfig, ops>>

\* ------------------------------------------------------------ environment
\* time passes
Tick ==
    /\ now < MaxTime
    /\ now' = now + 1
    /\ returned' = NoResult
    /\ UNCHANGED <<store, tasks, inFlight, chain, preserveOrder, retryConfig, ops>>

\* the payloads the upstream signer has stored: PENDING, never attempted,
\* with or without a signature, expiring before the end of the run
InitialStore == {[i \in {1} |-> NewPayload(signed, MaxTime - 1)] : signed \in BOOLEAN}

Init ==
    /\ store \in InitialStore
    /\ now = 0
    /\ tasks = EmptyBag
    /\ inFlight = {}
    /\ chain = <<>>
    /\ preserveOrder \in BOOLEAN
    /\ retryConfig = defaultRetryConfig
    /\ ops = 0
    /\ returned = NoResult

Next ==
    \/ \E id \in Ids : StartSubmit(id)
    \/ \E id \in Ids : StartRetry(id)
    \/ \E t \in Running : SubmitFind(t)
    \/ \E t \in Running : SubmitSaveExpired(t)
    \/ \E t \in Running : SubmitSendOk(t)
    \/ \E t \in Running : SubmitSendFail(t)
    \/ \E t \in Running : SubmitSleep(t)
    \/ \E t \in Running : SubmitSaveOk(t)
    \/ \E t \in Running : SubmitSaveFail(t)
    \/ \E t \in Running : MonitorWait(t)
    \/ \E t \in Running : MonitorWaitThrows(t)
    \/ \E t \in Running : MonitorFind(t)
    \/ \E t \in Running : MonitorCatchFind(t)
    \/ \E t \in Running : MonitorSave(t)
    \/ \E t \in Running : RetryFind(t)
    \/ \E t \in Running : RetrySave(t)
    \/ \E id \in Ids : StartProcessWithRetry(id)
    \/ \E t \in Running : ProcessFind(t)
    \/ \E t \in Running : ProcessSaveOk(t)
    \/ \E t \in Running : ProcessSaveFail(t)
    \/ \E t \in Running : ProcessSleep(t)
    \/ \E t \in Running : ProcessFailed(t)
    \/ \E t \in Running : MarkFailedFind(t)
    \/ \E t \in Running : MarkFailedSave(t)
    \/ \E t \in Running : MarkFailedThrows(t)
    \/ \E t \in Running : ProcessFindThrows(t)
    \/ \E t \in Running : ValidateFindThrows(t)
    \/ \E t \in Running : RetryFailedFindThrows(t)
    \/ StartSelect
    \/ \E t \in Running : SelectFind(t)
    \/ \E ids \in IdLists : StartBatch(ids)
    \/ \E t \in Running : ValidateFind(t)
    \/ \E t \in Running : ValidateLoop(t)
    \/ \E t \in Running : SequentialSubmit(t)
    \/ \E t \in Running : SequentialSaveOk(t)
    \/ \E t \in Running : SequentialSaveFail(t)
    \/ \E t \in Running : SequentialFailed(t)
    \/ \E t \in Running : SequentialSleep(t)
    \/ \E t \in Running : ConcurrentStart(t)
    \/ \E t \in Running : \E k \in 1..Len(t.valid) : ConcurrentSaveOk(t, k)
    \/ \E t \in Running : \E k \in 1..Len(t.valid) : ConcurrentSaveFail(t, k)
    \/ \E t \in Running : ConcurrentSettled(t)
    \/ \E ids \in IdLists \cup {<<>>} : StartRetryFailed(ids)
    \/ \E t \in Running : RetryFailedFind(t)
    \/ \E t \in Running : RetryFailedGather(t)
    \/ Tick

Spec == Init /\ [][Next]_vars

\* ------------------------------------------------------- the batch pipeline
\* The job that drives SubmissionBatchService: forever, it calls
\* getPayloadsForBatching(), hands the payloads returned to processBatch(),
\* then calls retryFailedPayloads().  It awaits each call.
Scheduler == [Task("scheduler", "sch_idle", 0) EXCEPT !.cid = 1]

\* a call the scheduler awaits has returned
ReturnedTo(t, op) ==
    {c \in Running : c.pc = "done" /\ c.parent = t.cid /\ c.op = op}

\* scheduler t moves to pc, receives the result c (if any) and makes `call`
Scheduled(t, pc, c, call) ==
    /\ tasks' = ((tasks (-) SetToBag({t})) (-) SetToBag(c))
                 (+) SetToBag({[t EXCEPT !.pc = pc]}) (+) SetToBag(call)
    /\ returned' = IF c = {} THEN NoResult ELSE CHOOSE r \in c : TRUE
    /\ UNCHANGED <<store, now, inFlight, chain, preserveOrder, retryConfig, ops>>

\* the rounds are far enough apart for the store calls that the round
\* before left detached to have settled
Settled == \A c \in Running : c.op # "markAsFailed"

SchedulerSelect(t) ==
    /\ t.pc = "sch_idle"
    /\ Settled
    /\ Scheduled(t, "sch_select", {},
                 {[Task("select", "gp_find", 0)
                     EXCEPT !.now0 = now, !.parent = t.cid]})

SchedulerBatch(t) ==
    /\ t.pc = "sch_select"
    /\ \E c \in ReturnedTo(t, "select") :
        Scheduled(t, "sch_batch", {c},
                  {[Task("batch", "vb_find", 0)
                      EXCEPT !.queue = c.results, !.ids = c.results,
                             !.parent = t.cid]})

SchedulerRetry(t) ==
    /\ t.pc = "sch_batch"
    /\ \E c \in ReturnedTo(t, "batch") :
        Scheduled(t, "sch_retry", {c},
                  {[Task("retryFailed", "rf_find", 0)
                      EXCEPT !.cid = t.cid + 1, !.parent = t.cid]})

SchedulerLoop(t) ==
    /\ t.pc = "sch_retry"
    /\ \E c \in ReturnedTo(t, "retryFailed") :
        Scheduled(t, "sch_idle", {c}, {})

\* two payloads, signed or not, expiring during the run or not
LivePayloads == {1, 2}

LiveInit ==
    /\ store \in [LivePayloads ->
                    {NewPayload(signed, exp) :
                       signed \in BOOLEAN, exp \in {MaxTime - 1, MaxTime}}]
    /\ \E i \in LivePayloads : store[i].sig
    /\ now = 0
    /\ tasks = SetToBag({Scheduler})
    /\ inFlight = {}
    /\ chain = <<>>
    /\ preserveOrder \in BOOLEAN
    /\ retryConfig = defaultRetryConfig
    /\ ops = 0
    /\ returned = NoResult

\* The payloads a batch is made of are unsigned (isBatchCandidate), and
\* validatePayloadsForBatch turns every unsigned payload down: no batch
\* the scheduler makes is ever dispatched, so the steps of
\* processSequentially and processConcurrently do not occur here.
LiveNext ==
    \/ \E t \in Running : SchedulerSelect(t)
    \/ \E t \in Running : SchedulerBatch(t)
    \/ \E t \in Running : SchedulerRetry(t)
    \/ \E t \in Running : SchedulerLoop(t)
    \/ \E t \in Running : SelectFind(t)
    \/ \E t \in Running : ValidateFind(t)
    \/ \E t \in Running : ValidateLoop(t)
    \/ \E t \in Running : MarkFailedFind(t)
    \/ \E t \in Running : MarkFailedSave(t)
    \/ \E t \in Running : RetryFailedFind(t)
    \/ \E t \in Running : RetryFailedGather(t)
    \/ \E t \in Running : ProcessFind(t)
    \/ \E t \in Running : ProcessSaveOk(t)
    \/ \E t \in Running : ProcessSaveFail(t)
    \/ \E t \in Running : ProcessSleep(t)
    \/ \E t \in Running : ProcessFailed(t)
    \/ Tick

\* every call that is awaited settles and every continuation runs
LiveSpec ==
    /\ LiveInit
    /\ [][LiveNext]_vars
    /\ WF_vars(\E t \in Running : SchedulerSelect(t))
    /\ WF_vars(\E t \in Running : SchedulerBatch(t))
    /\ WF_vars(\E t \in Running : SchedulerRetry(t))
    /\ WF_vars(\E t \in Running : SchedulerLoop(t))
    /\ WF_vars(\E t \in Running : SelectFind(t))
    /\ WF_vars(\E t \in Running : ValidateFind(t))
    /\ WF_vars(\E t \in Running : ValidateLoop(t))
    /\ WF_vars(\E t \in Running : MarkFailedFind(t))
    /\ WF_vars(\E t \in Running : MarkFailedSave(t))
    /\ WF_vars(\E t \in Running : RetryFailedFind(t))
    /\ WF_vars(\E t \in Running : RetryFailedGather(t))
    /\ WF_vars(\E t \in Running : ProcessFind(t))
    /\ WF_vars(\E t \in Running : ProcessSaveOk(t) \/ ProcessSaveFail(t))
    /\ WF_vars(\E t \in Running : ProcessSleep(t))
    /\ WF_vars(\E t \in Running : ProcessFailed(t))

\* ------------------------------------------------- batches of two payloads
\* SubmissionBatchService alone, called by one caller that awaits each call,
\* with lists of ids of two stored payloads: processBatch(payloadIds) and
\* retryFailedPayloads(payloadIds?).  Payload 1 is signed and does not
\* expire during the run; payload 2 may be unsigned and may expire.
BatchInit ==
    /\ store \in [LivePayloads ->
                    {NewPayload(signed, exp) :
                       signed \in BOOLEAN, exp \in {MaxTime - 1, MaxTime}}]
    /\ store[1] = NewPayload(TRUE, MaxTime)
    /\ now = 0
    /\ tasks = EmptyBag
    /\ inFlight = {}
    /\ chain = <<>>
    /\ preserveOrder \in BOOLEAN
    /\ retryConfig = defaultRetryConfig
    /\ ops = 0
    /\ returned = NoResult

BatchNext ==
    \/ \E ids \in IdLists : Outstanding = 0 /\ StartBatch(ids)
    \/ \E ids \in IdLists \cup {<<>>} : Outstanding = 0 /\ StartRetryFailed(ids)
    \/ \E t \in Running : ValidateFind(t)
    \/ \E t \in Running : ValidateLoop(t)
    \/ \E t \in Running : MarkFailedFind(t)
    \/ \E t \in Running : MarkFailedSave(t)
    \/ \E t \in Running : MarkFailedThrows(t)
    \/ \E t \in Running : ProcessFindThrows(t)
    \/ \E t \in Running : ValidateFindThrows(t)
    \/ \E t \in Running : RetryFailedFindThrows(t)
    \/ \E t \in Running : SequentialSubmit(t)
    \/ \E t \in Running : SequentialSaveOk(t)
    \/ \E t \in Running : SequentialSaveFail(t)
    \/ \E t \in Running : SequentialFailed(t)
    \/ \E t \in Running : SequentialSleep(t)
    \/ \E t \in Running : ConcurrentStart(t)
    \/ \E t \in Running : \E k \in 1..Len(t.valid) : ConcurrentSaveOk(t, k)
    \/ \E t \in Running : \E k \in 1..Len(t.valid) : ConcurrentSaveFail(t, k)
    \/ \E t \in Running : ConcurrentSettled(t)
    \/ \E t \in Running : RetryFailedFind(t)
    \/ \E t \in Running : RetryFailedGather(t)
    \/ \E t \in Running : ProcessFind(t)
    \/ \E t \in Running : ProcessSaveOk(t)
    \/ \E t \in Running : ProcessSaveFail(t)
    \/ \E t \in Running : ProcessSleep(t)
    \/ \E t \in Running : ProcessFailed(t)
    \/ Tick

BatchSpec == BatchInit /\ [][BatchNext]_vars

\* ------------------------------------------- two processBatch calls at once
\* Both callers have called processBatch, each with a list of ids of the
\* two stored payloads; neither call's find has returned yet.
TwoBatchesInit ==
    /\ store \in [LivePayloads ->
                    {NewPayload(signed, exp) :
                       signed \in BOOLEAN, exp \in {MaxTime - 1, MaxTime}}]
    /\ store[1] = NewPayload(TRUE, MaxTime)
    /\ now = 0
    /\ \E a \in IdLists, b \in IdLists :
         tasks = SetToBag({[Task("batch", "vb_find", 0)
                              EXCEPT !.queue = a, !.ids = a, !.cid = 1]})
                 (+) SetToBag({[Task("batch", "vb_find", 0)
                              EXCEPT !.queue = b, !.ids = b, !.cid = 2]})
    /\ inFlight = {}
    /\ chain = <<>>
    /\ preserveOrder \in BOOLEAN
    /\ retryConfig = defaultRetryConfig
    /\ ops = Cardinality(Callers)
    /\ returned = NoResult

TwoBatchesNext ==
    \/ \E t \in Running : ValidateFind(t)
    \/ \E t \in Running : ValidateLoop(t)
    \/ \E t \in Running : ValidateFindThrows(t)
    \/ \E t \in Running : MarkFailedFind(t)
    \/ \E t \in Running : MarkFailedSave(t)
    \/ \E t \in Running : MarkFailedThrows(t)
    \/ \E t \in Running : SequentialSubmit(t)
    \/ \E t \in Running : SequentialSaveOk(t)
    \/ \E t \in Running : SequentialSaveFail(t)
    \/ \E t \in Running : SequentialFailed(t)
    \/ \E t \in Running : SequentialSleep(t)
    \/ \E t \in Running : ConcurrentStart(t)
    \/ \E t \in Running : \E k \in 1..Len(t.valid) : ConcurrentSaveOk(t, k)
    \/ \E t \in Running : \E k \in 1..Len(t.valid) : ConcurrentSaveFail(t, k)
    \/ \E t \in Running : ConcurrentSettled(t)
    \/ Tick

TwoBatchesSpec == TwoBatchesInit /\ [][TwoBatchesNext]_vars

\* ------------------------------------------------- the selection alone
\* getPayloadsForBatching, called by either caller with or without a
\* limit, over three stored payloads (ids in creation order), each signed
\* or not and expiring during the run or not
SelectPayloads == {1, 2, 3}
Limits == {NoLimit} \cup (0..MaxLimit)

SelectInit ==
    /\ store \in [SelectPayloads ->
                    {NewPayload(signed, exp) :
                       signed \in BOOLEAN, exp \in {MaxTime - 1, MaxTime}}]
    /\ now = 0
    /\ tasks = EmptyBag
    /\ inFlight = {}
    /\ chain = <<>>
    /\ preserveOrder \in BOOLEAN
    /\ retryConfig = defaultRetryConfig
    /\ ops = 0
    /\ returned = NoResult

SelectNext ==
    \/ \E limit \in Limits : StartSelectLimit(limit)
    \/ \E t \in Running : SelectFind(t)
    \/ \E t \in Running : MarkFailedFind(t)
    \/ \E t \in Running : MarkFailedSave(t)
    \/ \E t \in Running : MarkFailedThrows(t)
    \/ Tick

SelectSpec == SelectInit /\ [][SelectNext]_vars

\* ------------------------------------------------ monitors that settle
\* the whole pipeline, with every store call of a monitorTransaction task
\* returning; nothing is assumed of waitForTransaction, which may never
\* return, nor of any other task
MonitorLiveSpec ==
    /\ Init
    /\ [][Next]_vars
    /\ WF_vars(\E t \in Running : MonitorFind(t))
    /\ WF_vars(\E t \in Running : MonitorCatchFind(t))
    /\ WF_vars(\E t \in Running : MonitorSave(t))

\* ------------------------------------------------ concurrent dispatch
\* processBatch and retryFailedPayloads in concurrent mode, called one at a
\* time with lists of up to three signed payloads, more than maxConcurrent;
\* the third payload may be CONFIRMED already
ChunkPayloads == {1, 2, 3}

ChunkInit ==
    /\ store \in [ChunkPayloads ->
                    {NewPayload(TRUE, MaxTime),
                     [NewPayload(TRUE, MaxTime) EXCEPT !.status = "CONFIRMED",
                                                       !.tx = 1]}]
    /\ store[1].status = "PENDING" /\ store[2].status = "PENDING"
    /\ now = 0
    /\ tasks = EmptyBag
    /\ inFlight = {}
    /\ chain = <<>>
    /\ preserveOrder = FALSE
    /\ retryConfig = defaultRetryConfig
    /\ ops = 0
    /\ returned = NoResult

ChunkNext ==
    \/ \E ids \in IdLists : Outstanding = 0 /\ StartBatch(ids)
    \/ \E ids \in IdLists : Outstanding = 0 /\ StartRetryFailed(ids)
    \/ \E t \in Running : ValidateFind(t)
    \/ \E t \in Running : ConcurrentStart(t)
    \/ \E t \in Running : \E k \in 1..Len(t.valid) : ConcurrentSaveOk(t, k)
    \/ \E t \in Running : \E k \in 1..Len(t.valid) : ConcurrentSaveFail(t, k)
    \/ \E t \in Running : ConcurrentSettled(t)
    \/ \E t \in Running : MarkFailedFind(t)
    \/ \E t \in Running : MarkFailedSave(t)
    \/ \E t \in Running : RetryFailedFind(t)
    \/ \E t \in Running : RetryFailedGather(t)
    \/ \E t \in Running : RetryFailedSleep(t)
    \/ \E t \in Running : ProcessFind(t)
    \/ \E t \in Running : ProcessSaveOk(t)
    \/ \E t \in Running : ProcessSaveFail(t)
    \/ \E t \in Running : ProcessSleep(t)
    \/ \E t \in Running : ProcessFailed(t)

ChunkSpec == ChunkInit /\ [][ChunkNext]_vars

\* ------------------------------------------------- getRetryablePayloads
\* getRetryablePayloads, called by either caller with or without a limit,
\* over three stored records: PENDING, or FAILED with a retryable, a
\* permanent or no error message, with attempts left or not, last updated
\* two ticks, one tick or no time before the run starts
RetryPayloads == {1, 2, 3}
UpdateTimes == (0 - maxAgeWindow)..0
StoredRecords ==
    {StoredAt(NewPayload(TRUE, MaxTime), 0)}
    \cup {StoredAt([NewPayload(TRUE, MaxTime)
                       EXCEPT !.status = "FAILED", !.err = e, !.attempts = a], u) :
            e \in {MsgNetworkTimeout, MsgInvalidSignature, NoMsg},
            a \in {1, batchMaxRetries}, u \in UpdateTimes}

RetryableInit ==
    /\ store \in [RetryPayloads -> StoredRecords]
    /\ now = 0
    /\ tasks = EmptyBag
    /\ inFlight = {}
    /\ chain = <<>>
    /\ preserveOrder = FALSE
    /\ retryConfig = defaultRetryConfig
    /\ ops = 0
    /\ returned = NoResult

RetryableNext ==
    \/ \E limit \in Limits : StartGetRetryable(limit)
    \/ \E t \in Running : GetRetryableFind(t)
    \/ Tick

RetryableSpec == RetryableInit /\ [][RetryableNext]_vars

\* --------------------------------------- getRetryablePayloads, repeated
\* the caller calls getRetryablePayloads() again, without a limit, each
\* time the previous call has returned
StartGetRetryableAgain ==
    /\ tasks = EmptyBag
    /\ tasks' = SetToBag({[Task("getRetryable", "gr_find", 0)
                             EXCEPT !.now0 = now]})
    /\ returned' = NoResult
    /\ UNCHANGED <<store, now, inFlight, chain, preserveOrder, retryConfig, ops>>

RepeatNext ==
    \/ StartGetRetryableAgain
    \/ \E t \in Running : GetRetryableFind(t)
    \/ Tick

\* the calls go on for ever and the find of each call returns
RepeatSpec ==
    /\ RetryableInit
    /\ [][RepeatNext]_vars
    /\ WF_vars(StartGetRetryableAgain)
    /\ WF_vars(\E t \in Running : GetRetryableFind(t))

\* ------------------------------------------ the single-payload operations
\* submitPayload of SubmitterService and processWithRetry of
\* SubmissionBatchService, called by either caller with the id of a stored
\* payload or with an id nothing is stored under
CallIds == Ids \cup {MissingId}

SingleNext ==
    \/ \E id \in CallIds : StartSubmit(id)
    \/ \E t \in Running : SubmitFind(t)
    \/ \E t \in Running : SubmitSaveExpired(t)
    \/ \E t \in Running : SubmitSendOk(t)
    \/ \E t \in Running : SubmitSendFail(t)
    \/ \E t \in Running : SubmitSleep(t)
    \/ \E t \in Running : SubmitSaveOk(t)
    \/ \E t \in Running : SubmitSaveFail(t)
    \/ \E t \in Running : MonitorWait(t)
    \/ \E t \in Running : MonitorWaitThrows(t)
    \/ \E t \in Running : MonitorFind(t)
    \/ \E t \in Running : MonitorCatchFind(t)
    \/ \E t \in Running : MonitorSave(t)
    \/ \E id \in CallIds : StartProcessWithRetry(id)
    \/ \E t \in Running : ProcessFind(t)
    \/ \E t \in Running : ProcessSaveOk(t)
    \/ \E t \in Running : ProcessSaveFail(t)
    \/ \E t \in Running : ProcessSleep(t)
    \/ \E t \in Running : ProcessFailed(t)
    \/ \E t \in Running : ProcessFindThrows(t)
    \/ \E t \in Running : MarkFailedFind(t)
    \/ \E t \in Running : MarkFailedSave(t)
    \/ \E t \in Running : MarkFailedThrows(t)
    \/ Tick

SingleSpec == Init /\ [][SingleNext]_vars

\* ------------------------------------------- submitPayload calls that settle
\* SubmitterService.submitPayload alone, called by either caller
SubmitNext ==
    \/ \E id \in CallIds : StartSubmit(id)
    \/ \E t \in Running : SubmitFind(t)
    \/ \E t \in Running : SubmitSaveExpired(t)
    \/ \E t \in Running : SubmitSendOk(t)
    \/ \E t \in Running : SubmitSendFail(t)
    \/ \E t \in Running : SubmitSleep(t)
    \/ \E t \in Running : SubmitSaveOk(t)
    \/ \E t \in Running : SubmitSaveFail(t)
    \/ \E t \in Running : MonitorWait(t)
    \/ \E t \in Running : MonitorWaitThrows(t)
    \/ \E t \in Running : MonitorFind(t)
    \/ \E t \in Running : MonitorCatchFind(t)
    \/ \E t \in Running : MonitorSave(t)
    \/ Tick

\* every store call and every chain send of a submitPayload call returns or
\* throws, and its backoff timer fires; nothing is assumed of
\* monitorTransaction, whose waitForTransaction may never return
SubmitLiveSpec ==
    /\ Init
    /\ [][SubmitNext]_vars
    /\ WF_vars(\E t \in Running : SubmitFind(t))
    /\ WF_vars(\E t \in Running : SubmitSaveExpired(t))
    /\ WF_vars(\E t \in Running : SubmitSendOk(t) \/ SubmitSendFail(t))
    /\ WF_vars(\E t \in Running : SubmitSleep(t))
    /\ WF_vars(\E t \in Running : SubmitSaveOk(t))
    /\ WF_vars(\E t \in Running : SubmitSaveFail(t))

\* ------------------------------------------------ categorizeFailure alone
\* The error messages handed to categorizeFailure: up to MaxWords words, in
\* the spellings the chain client, the store and the services use.
Words ==
    {"Payload", "expired", "Invalid", "invalid", "signature", "Network",
     "error", "Timeout", "timeout", "unknown"}
Messages == UNION {[1..n -> Words] : n \in 0..MaxWords}

\* one categorizeFailure(error) call is about to be made
CategorizeInit ==
    /\ store = [i \in {1} |-> NewPayload(TRUE, MaxTime)]
    /\ now = 0
    /\ \E m \in Messages :
         tasks = SetToBag({[Task("categorizeFailure", "call", 0)
                              EXCEPT !.msg = m]})
    /\ inFlight = {}
    /\ chain = <<>>
    /\ preserveOrder = FALSE
    /\ retryConfig = defaultRetryConfig
    /\ ops = 0
    /\ returned = NoResult

\* the call returns the FailureType
Categorize(t) ==
    /\ t.op = "categorizeFailure" /\ t.pc = "call"
    /\ Step(t, [t EXCEPT !.pc = "done", !.value = categorizeFailure(t.msg)])
    /\ UNCHANGED <<store, now, inFlight, chain, preserveOrder, retryConfig, ops>>

CategorizeNext == \E t \in Running : Categorize(t)

CategorizeSpec == CategorizeInit /\ [][CategorizeNext]_vars

\* ------------------------------------------- the backoff of the retry loops
\* The positive whole-number configurations of the three retry settings.
RetryConfigs ==
    [initialRetryDelay : 1..MaxInitialDelay, maxRetryDelay : 1..MaxDelayCap,
     backoffMultiplier : 1..MaxMultiplier]

\* the services are constructed on some configuration; one signed payload
\* is stored, and one calculateRetryDelay(attempt) call is about to be made
DelayInit ==
    /\ store \in [{1} -> {NewPayload(TRUE, exp) : exp \in {MaxTime - 1, MaxTime}}]
    /\ now = 0
    /\ \E a \in 1..MaxAttempt :
         tasks = SetToBag({[Task("calculateRetryDelay", "call", 0)
                              EXCEPT !.attempt = a]})
    /\ inFlight = {}
    /\ chain = <<>>
    /\ preserveOrder = FALSE
    /\ retryConfig \in RetryConfigs
    /\ ops = 0
    /\ returned = NoResult

\* the call returns the delay
CalculateDelay(t) ==
    /\ t.op = "calculateRetryDelay" /\ t.pc = "call"
    /\ Step(t, [t EXCEPT !.pc = "done",
                         !.value = calculateRetryDelay(retryConfig, t.attempt)])
    /\ UNCHANGED <<store, now, inFlight, chain, preserveOrder, retryConfig, ops>>

\* the helper call, then the two retry loops (submitPayload of
\* SubmitterService, processWithRetry of SubmissionBatchService), one call
\* at a time
DelayNext ==
    \/ \E t \in Running : CalculateDelay(t)
    \/ \E id \in Ids : tasks = EmptyBag /\ StartSubmit(id)
    \/ \E t \in Running : SubmitFind(t)
    \/ \E t \in Running : SubmitSaveExpired(t)
    \/ \E t \in Running : SubmitSendOk(t)
    \/ \E t \in Running : SubmitSendFail(t)
    \/ \E t \in Running : SubmitSleep(t)
    \/ \E t \in Running : SubmitSaveOk(t)
    \/ \E t \in Running : SubmitSaveFail(t)
    \/ \E t \in Running : MonitorWait(t)
    \/ \E t \in Running : MonitorWaitThrows(t)
    \/ \E t \in Running : MonitorFind(t)
    \/ \E t \in Running : MonitorCatchFind(t)
    \/ \E t \in Running : MonitorSave(t)
    \/ \E id \in Ids : tasks = EmptyBag /\ StartProcessWithRetry(id)
    \/ \E t \in Running : ProcessFind(t)
    \/ \E t \in Running : ProcessSaveOk(t)
    \/ \E t \in Running : ProcessSaveFail(t)
    \/ \E t \in Running : ProcessSleep(t)
    \/ \E t \in Running : ProcessFailed(t)
    \/ \E t \in Running : ProcessFindThrows(t)
    \/ \E t \in Running : MarkFailedFind(t)
    \/ \E t \in Running : MarkFailedSave(t)
    \/ \E t \in Running : MarkFailedThrows(t)
    \/ Tick

DelaySpec == DelayInit /\ [][DelayNext]_vars

\* ------------------------------------------------------------- properties
\* the calls that ended in the last step: the one handed to its caller and
\* the processWithRetry calls waiting for the Promise.all of their chunk
Ended == {returned} \cup {c \in Running : c.pc = "done"}
Waiting == {c \in Running : c.pc = "done"}

\* the tasks whose save, made in this step, would write what the store now
\* holds for id, and that read the record as it was stored until this step:
\* when there is one, the change of the record is no lost update
SavePcs ==
    {"sp_save_expired", "sp_save_ok", "sp_save_fail", "mon_save", "rs_save",
     "mf_save", "pwr_save"}
FreshWriters(id) ==
    {t \in Running :
        /\ t.pc \in SavePcs /\ t.id = id
        /\ t.read = store[id] /\ t.p = store'[id]
        /\ store'[id] # store[id]}

\* C1: once a record's transactionHash names a transaction the contract
\* accepted, no later submitPayload for it (called directly or by
\* retrySubmission) gets to the contract send: a call whose findOne returned
\* the record with that hash never sends.
C1_NoSendOnceHashSet ==
    \A t \in Running :
        (t.op \in {"submit", "retry"} /\ t.pc = "sp_send")
            => t.read.tx \notin SentTxsOf(t.id)

\* C2: of the submitPayload / processWithRetry calls that run at the same
\* time on one payload they both read as PENDING, at most one invokes the
\* send.
C2_AtMostOneSender ==
    \A id \in Ids :
        LET senders == {t \in Running :
                          /\ t.id = id /\ t.op \in {"submit", "pwr"}
                          /\ t.pc # "done"
                          /\ t.read.status = "PENDING" /\ t.sends > 0}
        IN /\ Cardinality(senders) <= 1
           /\ \A t \in senders : CopiesIn(t, tasks) = 1

\* C3: no send is invoked (the contract call of SubmitterService, the
\* submitPayload of SubmissionBatchService) for a payload whose expiresAt is
\* in the past, and no record becomes SUBMITTED once its expiresAt is in the
\* past.
C3_ExpiredNeverSubmitted ==
    [][ /\ \A h \in (Len(chain) + 1)..Len(chain') :
             ~isExpired(store[chain'[h].id], now)
        /\ \A id \in Ids :
             (store[id].status # "SUBMITTED" /\ store'[id].status = "SUBMITTED")
                => ~isExpired(store[id], now) ]_vars

\* C4: a submitPayload or processWithRetry call that finds the record
\* CONFIRMED with a transactionHash returns success with that stored hash,
\* and the step sends nothing to the chain and writes nothing to the store
\* (so a repeated call finds the same record and returns the same hash).
C4_ConfirmedIdempotent ==
    [][ \A r \in Ended' \ Waiting :
          (/\ r.pc = "done" /\ r.op \in {"submit", "pwr"}
           /\ r.read.status = "CONFIRMED" /\ r.read.tx # 0)
            => /\ r.ok
               /\ r.tx = r.read.tx
               /\ r.tx = store[r.id].tx
               /\ chain' = chain
               /\ store' = store ]_vars

\* C4 happens: a processWithRetry call found the record CONFIRMED with a
\* hash and returned it
C4_Witness ==
    /\ returned.pc = "done" /\ returned.op = "pwr"
    /\ returned.read.status = "CONFIRMED" /\ returned.read.tx # 0
    /\ returned.tx = returned.read.tx
    /\ store[returned.id].status = "CONFIRMED"

\* C5: a record becomes CONFIRMED only from SUBMITTED, also when the write
\* is made on an up-to-date read.
C5_ConfirmedOnlyFromSubmitted ==
    [][ \A id \in Ids :
          (/\ store[id].status # "CONFIRMED" /\ store'[id].status = "CONFIRMED"
           /\ FreshWriters(id) # {})
            => store[id].status = "SUBMITTED" ]_vars

\* C6: CONFIRMED is terminal: no operation that read the record as it is
\* stored changes the status of a CONFIRMED record.
C6_ConfirmedTerminal ==
    [][ \A id \in Ids :
          (store[id].status = "CONFIRMED" /\ FreshWriters(id) # {})
            => store'[id].status = "CONFIRMED" ]_vars

\* C7: the only write (made on an up-to-date read) that takes a record out
\* of FAILED is the save of retrySubmission, and it takes the record to
\* PENDING.
C7_FailedLeavesOnlyByRetry ==
    [][ \A id \in Ids :
          (/\ store[id].status = "FAILED" /\ store'[id].status # "FAILED"
           /\ FreshWriters(id) # {})
            => /\ store'[id].status = "PENDING"
               /\ \A t \in FreshWriters(id) :
                    t.op = "retry" /\ t.pc = "rs_save" ]_vars

\* C8: with the scheduler running its rounds forever and every call
\* settling, every signed PENDING payload that does not expire is eventually
\* CONFIRMED, with exactly one confirmed transaction.
C8_EventuallyConfirmed ==
    \A id \in LivePayloads :
        (/\ store[id].status = "PENDING" /\ store[id].sig
         /\ store[id].expiresAt >= MaxTime)
        ~> (/\ store[id].status = "CONFIRMED"
            /\ Cardinality({h \in TxsOf(id) : chain[h].receipt = "ok"}) = 1)

\* C9: no write made on an up-to-date read lowers the stored
\* submissionAttempts of a record.
C9_AttemptsMonotone ==
    [][ \A id \in Ids :
          FreshWriters(id) # {} => store'[id].attempts >= store[id].attempts
      ]_vars

\* C10: the stored submissionAttempts is at most maxRetries + 1, and at most
\* maxRetries while the record is PENDING.
C10_AttemptsBounded ==
    \A id \in Ids :
        /\ store[id].attempts <= maxRetries + 1
        /\ store[id].status = "PENDING" => store[id].attempts <= maxRetries

\* C11: inside one SubmitterService.submitPayload call, a failed send whose
\* error is PERMANENT, or that was attempt maxRetries + 1, is followed by no
\* backoff and no further send: the record is saved FAILED with the error
\* message and the attempt count, the error is raised to the caller, and
\* the call has made one send per attempt (one send for a PERMANENT error on
\* attempt 1).
C11_FinalFailureStops ==
    [][ /\ \A t \in Running' :
             (t.op \in {"submit", "retry"} /\ t.pc = "sp_sleep")
                => /\ t.attempt < maxRetries + 1
                   /\ t.msg # MsgInvalidSignature
        /\ \A t \in Running' :
             (t.op \in {"submit", "retry"} /\ t.pc = "sp_save_fail")
                => /\ t.p.status = "FAILED" /\ t.p.err = t.msg
                   /\ t.p.attempts = t.attempt /\ t.sends = t.attempt
        /\ \A t \in Running :
             (t.op \in {"submit", "retry"} /\ t.pc = "sp_save_fail"
              /\ store' # store /\ t.p = store'[t.id])
                => /\ returned'.pc = "done" /\ ~returned'.ok
                   /\ returned'.msg = t.msg /\ returned'.sends = t.sends
                   /\ store'[t.id].status = "FAILED"
                   /\ store'[t.id].err = t.msg
                   /\ store'[t.id].attempts = t.attempt
                   /\ chain' = chain ]_vars

\* C11 happens: the send threw "Invalid signature" on attempt 1; the call
\* raised it after one send and the record is stored FAILED with it
C11_Witness ==
    /\ returned.pc = "done" /\ returned.op = "submit" /\ ~returned.ok
    /\ returned.msg = MsgInvalidSignature
    /\ returned.attempt = 1 /\ returned.sends = 1
    /\ store[returned.id].status = "FAILED"
    /\ store[returned.id].err = MsgInvalidSignature
    /\ store[returned.id].attempts = 1

BatchIdle ==
    \A t \in Running :
        t.op \notin {"select", "batch", "pwr", "retryFailed", "markAsFailed"}

\* C13: once the getPayloadsForBatching, processBatch, processWithRetry and
\* retryFailedPayloads calls made so far have all completed, no id is marked
\* in-flight.
C13_InFlightCleared == BatchIdle => inFlight = {}

\* the place of id x in the list s
IndexOf(s, x) == CHOOSE i \in 1..Len(s) : s[i] = x

\* C14: with preserveOrder = true the results of processBatch(ids) list the
\* processed payloads in the relative order they have in ids.
C14_ResultOrderIsInputOrder ==
    (returned.op = "batch" /\ returned.pc = "done" /\ preserveOrder)
        => \A i, j \in 1..Len(returned.results) :
              i < j => IndexOf(returned.ids, returned.results[i].id)
                         < IndexOf(returned.ids, returned.results[j].id)

\* the payload ids of a list of results or of validated payloads
IdsOf(s) == [k \in 1..Len(s) |-> s[k].id]

\* C15: when processBatch returns, its results hold one entry for each
\* payload that passed validation, in their order, and a submission was
\* attempted for each of them whatever became of the others; with no valid
\* payload the results are empty and nothing is sent.  When
\* retryFailedPayloads returns, its results hold one entry for each payload
\* of every chunk; with no payload they are empty and nothing is sent.
\* A call that ends with an error instead ends at its first store read,
\* before any payload is dispatched.
\* (totalPayloads is the number of those payloads; successfulPayloads and
\* failedPayloads count the entries of results by their success flag.)
C15_OneResultPerPayload ==
    [][ /\ \A t \in Running :
             (t.op = "batch" /\ returned'.op = "batch" /\ returned'.pc = "done")
                => IF returned'.ok
                   THEN
                   /\ IdsOf(returned'.results) = IdsOf(t.valid)
                   /\ t.sends = Len(t.valid)
                   /\ t.valid = <<>> => chain' = chain
                   ELSE t.pc = "vb_find" /\ chain' = chain
        /\ \A t \in Running :
             (/\ t.op = "retryFailed" /\ t.pc = "rf_wait"
              /\ returned'.op = "retryFailed" /\ returned'.pc = "done")
                => /\ returned'.ok
                   /\ IdsOf(returned'.results) = IdsOf(t.results) \o t.valid
                   /\ chain' = chain
        /\ \A t \in Running :
             (/\ t.op = "retryFailed" /\ t.pc = "rf_find"
              /\ returned'.op = "retryFailed" /\ returned'.pc = "done")
                => /\ returned'.results = <<>>
                   /\ chain' = chain ]_vars

\* C15 happens: in a sequential batch of two payloads the submission of the
\* first failed and the second was submitted all the same
C15_Witness ==
    /\ returned.op = "batch" /\ returned.pc = "done" /\ preserveOrder
    /\ Len(returned.results) = 2 /\ returned.sends = 2
    /\ ~returned.results[1].ok /\ returned.results[2].ok
    /\ store[returned.results[1].id].status = "FAILED"
    /\ store[returned.results[2].id].status = "SUBMITTED"

\* C16: processBatch and retryFailedPayloads never raise: every such call
\* that ends hands its caller a BatchSubmissionResult.
C16_BatchCallsNeverRaise ==
    (returned.op \in {"batch", "retryFailed"} /\ returned.pc = "done")
        => returned.ok

\* C17: a SubmitterService.submitPayload call (made directly, or by
\* retrySubmission once its reset is saved) whose findOne returns the record
\* SUBMITTED with a transactionHash sends nothing, writes nothing, returns
\* that hash, and starts a monitorTransaction for it.
C17_SubmittedResumesMonitoring ==
    [][ (/\ returned'.pc = "done"
         /\ \/ returned'.op = "submit"
            \/ returned'.op = "retry" /\ returned'.writes >= 1
         /\ returned'.read.status = "SUBMITTED" /\ returned'.read.tx # 0)
          => /\ returned'.ok
             /\ returned'.tx = returned'.read.tx
             /\ returned'.sends = 0
             /\ chain' = chain
             /\ store' = store
             /\ CopiesIn(Monitor(returned'.id, returned'.tx), tasks')
                  = CopiesIn(Monitor(returned'.id, returned'.tx), tasks) + 1
      ]_vars

\* C17 happens: a direct submitPayload call found the record SUBMITTED,
\* returned the stored hash without a send or a write, and a monitor of that
\* hash is waiting for its receipt
C17_Witness ==
    /\ returned.pc = "done" /\ returned.op = "submit" /\ returned.ok
    /\ returned.read.status = "SUBMITTED" /\ returned.read.tx # 0
    /\ returned.tx = returned.read.tx
    /\ returned.sends = 0 /\ returned.writes = 0
    /\ store[returned.id].status = "SUBMITTED"
    /\ store[returned.id].tx = returned.tx
    /\ Monitor(returned.id, returned.tx) \in Running

\* the candidates a getPayloadsForBatching call fetches from the store as it
\* is, and those of them that had expired when the call took its `now`
Fetched(t) ==
    Range(Take(Ascending({i \in Ids : isBatchCandidate(store[i])}),
               effectiveBatchSize(t.limit) * 2))
ExpiredFetched(t) == {i \in Fetched(t) : store[i].expiresAt < t.now0}

\* C18: at the step where getPayloadsForBatching returns, every expired
\* PENDING candidate it fetched is left out of the returned selection and is
\* stored FAILED with an error message containing "expired".
C18_ExpiredFailedBeforeReturn ==
    [][ \A t \in Running :
          (/\ t.op = "select" /\ t.pc = "gp_find"
           /\ CopiesIn(t, tasks') < CopiesIn(t, tasks))
            => \A i \in ExpiredFetched(t) :
                 /\ i \notin Range(returned'.results)
                 /\ store'[i].status = "FAILED"
                 /\ "expired" \in Range(store'[i].err) ]_vars

\* the lower-cased message contains one of the patterns
Matches(lm, patterns) == \E pat \in patterns : includes(lm, pat)

\* C19: what categorizeFailure returns is fixed by the lower-cased message:
\* PERMANENT when it contains a permanent pattern (also when it contains a
\* retryable pattern as well), RETRYABLE when it contains only a retryable
\* pattern, RETRYABLE when it contains neither.
C19_PermanentPatternsFirst ==
    (returned.op = "categorizeFailure" /\ returned.pc = "done") =>
        LET lm == LowerMsg(returned.msg) IN
        /\ Matches(lm, permanentPatterns) => returned.value = "PERMANENT"
        /\ (Matches(lm, retryablePatterns) /\ ~Matches(lm, permanentPatterns))
              => returned.value = "RETRYABLE"
        /\ (~Matches(lm, retryablePatterns) /\ ~Matches(lm, permanentPatterns))
              => returned.value = "RETRYABLE"

\* C19 happens: a message written with capitals that contains a permanent
\* and a retryable pattern once lower-cased was categorized PERMANENT
C19_Witness ==
    /\ returned.op = "categorizeFailure" /\ returned.pc = "done"
    /\ returned.msg # LowerMsg(returned.msg)
    /\ Matches(LowerMsg(returned.msg), permanentPatterns)
    /\ Matches(LowerMsg(returned.msg), retryablePatterns)
    /\ ~Matches(returned.msg, retryablePatterns)
    /\ returned.value = "PERMANENT"

\* min(initialDelay * multiplier^(a-1), maxDelay), the product taken as
\* a-1 multiplications
RECURSIVE Backoff(_, _)
Backoff(cfg, a) ==
    IF a = 1 THEN cfg.initialRetryDelay
    ELSE cfg.backoffMultiplier * Backoff(cfg, a - 1)
CappedBackoff(cfg, a) ==
    IF Backoff(cfg, a) <= cfg.maxRetryDelay THEN Backoff(cfg, a)
    ELSE cfg.maxRetryDelay

\* the tasks asleep between two attempts of a retry loop
Sleeping == {t \in Running : t.pc \in {"sp_sleep", "pwr_sleep"}}

\* C20: on a positive whole-number configuration with multiplier >= 1,
\* calculateRetryDelay(a) for a >= 1 is min(initialDelay * multiplier^(a-1),
\* maxDelay), never above maxDelay and never above calculateRetryDelay(a+1);
\* a retry loop asleep after failed attempt a sleeps on exactly that delay.
C20_CappedExponentialBackoff ==
    /\ (returned.op = "calculateRetryDelay" /\ returned.pc = "done") =>
          /\ returned.value = CappedBackoff(retryConfig, returned.attempt)
          /\ returned.value <= retryConfig.maxRetryDelay
          /\ returned.value
               <= calculateRetryDelay(retryConfig, returned.attempt + 1)
    /\ \A t \in Sleeping :
          /\ t.attempt >= 1
          /\ t.delay = CappedBackoff(retryConfig, t.attempt)

\* C20 happens: a calculateRetryDelay call returned the capped value on a
\* configuration whose uncapped product exceeds the maximum, ...
C20_Witness ==
    /\ returned.op = "calculateRetryDelay" /\ returned.pc = "done"
    /\ returned.attempt > 1
    /\ Backoff(retryConfig, returned.attempt) > retryConfig.maxRetryDelay
    /\ retryConfig.initialRetryDelay < retryConfig.maxRetryDelay
    /\ returned.value = retryConfig.maxRetryDelay

\* ... and a submitPayload call sleeps after its second failed attempt on a
\* delay that the multiplier has raised and the maximum has not capped
C20_SleepWitness ==
    \E t \in Sleeping :
        /\ t.pc = "sp_sleep" /\ t.attempt = 2
        /\ t.delay > retryConfig.initialRetryDelay
        /\ t.delay < retryConfig.maxRetryDelay

\* the task takes this step (one copy of it leaves its position)
Steps(t) == CopiesIn(t, tasks') < CopiesIn(t, tasks)

\* the record a submitPayload call finds is none, or has a status other
\* than PENDING outside the two short-circuits, or has no signature
FailsValidation(id) ==
    \/ id \notin Ids
    \/ /\ id \in Ids
       /\ ~(store[id].status \in {"CONFIRMED", "SUBMITTED"} /\ store[id].tx # 0)
       /\ store[id].status # "PENDING" \/ ~store[id].sig

\* C21: a submitPayload call whose findOne returns no record, a record
\* that is not PENDING (outside the CONFIRMED / SUBMITTED short-circuits) or
\* an unsigned record raises in that very step, having sent nothing, retried
\* nothing and written nothing; one that finds a signed PENDING record
\* expired makes one write, which stores FAILED, and raises without a send;
\* a processWithRetry call whose findOne returns no record returns a
\* PERMANENT failure, with no send and no write.
C21_ValidationFailsAtOnce ==
    [][ \A t \in Running :
          /\ (t.pc = "sp_find" /\ Steps(t) /\ FailsValidation(t.id))
               => /\ returned'.pc = "done" /\ returned'.id = t.id
                  /\ ~returned'.ok
                  /\ returned'.sends = 0 /\ returned'.attempt = 0
                  /\ returned'.writes = t.writes
                  /\ store' = store /\ chain' = chain
          /\ (/\ t.pc = "sp_find" /\ Steps(t) /\ ~FailsValidation(t.id)
              /\ store[t.id].status = "PENDING"
              /\ now > store[t.id].expiresAt)
               => /\ chain' = chain /\ store' = store
                  /\ \E u \in BagToSet(tasks') :
                       u.pc = "sp_save_expired" /\ u.id = t.id /\ u.sends = 0
          /\ (t.pc = "sp_save_expired" /\ Steps(t))
               => /\ returned'.pc = "done" /\ returned'.id = t.id
                  /\ ~returned'.ok
                  /\ returned'.sends = 0 /\ returned'.attempt = 0
                  /\ returned'.writes = t.writes + 1
                  /\ store'[t.id].status = "FAILED"
                  /\ chain' = chain
          /\ (/\ t.op = "pwr" /\ t.pc = "pwr_find" /\ Steps(t)
              /\ t.id \notin Ids /\ returned'.pc = "done")
               => /\ ~returned'.ok
                  /\ returned'.failureType = "PERMANENT"
                  /\ returned'.sends = 0 /\ returned'.writes = 0
                  /\ store' = store /\ chain' = chain
      ]_vars

\* C21 happens: a direct submitPayload call on a stored PENDING record
\* without signature was refused, with no send and no write
C21_Witness ==
    /\ returned.pc = "done" /\ returned.op = "submit" /\ ~returned.ok
    /\ returned.id \in Ids
    /\ returned.read.status = "PENDING" /\ ~returned.read.sig
    /\ returned.msg = <<"is", "not", "signed">>
    /\ returned.sends = 0 /\ returned.writes = 0

\* ... and the other cases: no record (both services), a FAILED record, an
\* expired record
C21_NotFoundWitness ==
    /\ returned.pc = "done" /\ returned.op = "submit" /\ ~returned.ok
    /\ returned.id = MissingId /\ returned.msg = <<"not", "found">>
C21_MissingIdWitness ==
    /\ returned.pc = "done" /\ returned.op = "pwr" /\ ~returned.ok
    /\ returned.id = MissingId /\ returned.failureType = "PERMANENT"
    /\ returned.attempt = 1
C21_WrongStatusWitness ==
    /\ returned.pc = "done" /\ returned.op = "submit" /\ ~returned.ok
    /\ returned.read.status = "FAILED" /\ returned.sends = 0
C21_ExpiredWitness ==
    /\ returned.pc = "done" /\ returned.op = "submit" /\ ~returned.ok
    /\ returned.msg = <<"Payload", "has", "expired">>
    /\ returned.writes = 1 /\ store[returned.id].status = "FAILED"

\* the submitPayload calls that have not returned yet
SubmitCalls == {t \in Running : t.op = "submit" /\ t.pc # "done"}

\* C22: a submitPayload call never makes more than maxRetries + 1 chain
\* sends, and when its store calls, its chain sends and its timers return,
\* every call made has returned or raised from some point on, whether or not
\* the monitors it started ever complete.
C22_SubmitTerminates ==
    /\ [](\A t \in Running \cup {returned} :
            t.op = "submit" => t.sends <= maxRetries + 1)
    /\ <>[](SubmitCalls = {})

\* C22 happens: a call has returned after maxRetries + 1 sends, no call is
\* left, and the monitor it started is still waiting for the receipt
C22_Witness ==
    /\ returned.op = "submit" /\ returned.pc = "done" /\ returned.ok
    /\ returned.sends = maxRetries + 1
    /\ SubmitCalls = {}
    /\ Monitor(returned.id, returned.tx) \in Running

\* C23: when a processBatch call that was handed the payloads of a
\* getPayloadsForBatching result returns, every one of them that has not
\* expired has an entry in the results (it was dispatched), whatever
\* preserveOrder is.
C23_SelectedAreDispatched ==
    (returned.op = "batch" /\ returned.pc = "done" /\ returned.parent # 0)
        => \A i \in Range(returned.ids) :
              ~(store[i].expiresAt < now) => i \in Range(IdsOf(returned.results))

\* C24: of two processBatch calls running at once, at most one submits a
\* given payload: no call makes a transaction for a payload that is stored
\* SUBMITTED, i.e. that the other call has submitted and saved.
C24_AtMostOneBatchSubmits ==
    [][ \A i \in Ids :
          Cardinality(TxsOf(i))' > Cardinality(TxsOf(i))
            => store[i].status # "SUBMITTED" ]_vars

\* the unsigned PENDING records in creation order, and whether one passes
\* the two checks of a selection that took its time at t0
Candidates ==
    Ascending({i \in Ids : store[i].status = "PENDING" /\ ~store[i].sig})
Passes(i, t0) == ~(store[i].expiresAt < t0) /\ i \notin inFlight

\* what a selection of at most k must return when its find returns now
Selection(k, t0) ==
    Take(SelectSeq(Take(Candidates, 2 * k), LAMBDA i : Passes(i, t0)), k)

C26_ResultIsMarked ==
    [][ \A t \in Running :
          (t.op = "select" /\ t.pc = "gp_find" /\ Steps(t))
            => /\ Range(returned'.results) \subseteq inFlight'
               /\ (inFlight' \ inFlight) \subseteq Range(returned'.results) ]_vars

\* how many records a call handed `limit` may return, read literally
LimitOf(t) == IF t.limit = NoLimit THEN batchSize ELSE t.limit

\* record i is one getRetryablePayloads may return to a call entered at t0
IsRetryable(i, t0) ==
    /\ store[i].status = "FAILED"
    /\ store[i].updatedAt > t0 - maxAgeWindow
    /\ categorizeFailure(store[i].err) = "RETRYABLE"
    /\ store[i].attempts < batchMaxRetries

\* C27 as stated, for every limit handed in: getRetryablePayloads(limit)
\* returns only FAILED records updated within the 24 hours before the call,
\* whose error message classifies RETRYABLE and whose attempts are below
\* maxRetries, and at most limit (batchSize when none is given) of them.
C27_ReturnsRetryableUpToLimit ==
    [][ \A t \in Running :
          (t.op = "getRetryable" /\ t.pc = "gr_find" /\ Steps(t))
            => /\ \A i \in Range(returned'.results) : IsRetryable(i, t.now0)
               /\ Len(returned'.results) <= LimitOf(t) ]_vars

\* C27 for a limit >= 1, with limit 0 (like no limit) standing for the
\* configured batchSize: only FAILED records updated within the 24 hours
\* before the call, classified RETRYABLE, with attempts below maxRetries,
\* are returned, each once, and at most that many.
C27_ReturnsRetryableUpToLimitOrDefault ==
    [][ \A t \in Running :
          (t.op = "getRetryable" /\ t.pc = "gr_find" /\ Steps(t))
            => LET r == returned'.results
               IN /\ \A i \in Range(r) : IsRetryable(i, t.now0)
                  /\ Cardinality(Range(r)) = Len(r)
                  /\ Len(r) <= IF t.limit >= 1 THEN t.limit ELSE batchSize ]_vars

\* C27 happens: a call with limit 2 returned one record although three are
\* stored FAILED: the oldest was fetched and dropped, the newest not fetched
C27_Witness ==
    /\ returned.op = "getRetryable" /\ returned.pc = "done"
    /\ returned.limit = 2 /\ Len(returned.results) = 1
    /\ \A i \in Ids : store[i].status = "FAILED"
    /\ \E i \in Ids : i \notin Range(returned.results) /\ IsRetryable(i, now)
    /\ \E i \in Ids : ~IsRetryable(i, now)

\* the items a validation step of processBatch call t adds to its list of
\* valid payloads
NewlyValid(t) ==
    UNION {{u.valid[k] : k \in (Len(t.valid) + 1)..Len(u.valid)} :
             u \in {v \in BagToSet(tasks') : v.op = "batch" /\ v.cid = t.cid}}

\* the payloads a dispatching step of processBatch call t submits
Submitting(t) ==
    IF t.pc = "seq_next" THEN {t.valid[t.idx].id}
    ELSE IF t.pc = "con_start" THEN {t.valid[k].id : k \in 1..Len(t.valid)}
    ELSE {}

\* C28: a payload that the validation of processBatch passes on to
\* submission is, as validation read it, PENDING, signed, not expired at
\* the time validation took and not in-flight before; and when the
\* submission of a payload starts the payload is marked in-flight.
C28_DispatchesOnlyValidPending ==
    [][ \A t \in Running :
          (t.op = "batch" /\ Steps(t))
            => /\ t.pc \in {"vb_find", "vb_loop"}
                  => \A it \in NewlyValid(t) :
                        /\ it.p.status = "PENDING"
                        /\ it.p.sig
                        /\ ~(it.p.expiresAt <
                               IF t.pc = "vb_find" THEN now ELSE t.now0)
                        /\ it.id \notin inFlight
               /\ \A i \in Submitting(t) : i \in inFlight ]_vars

\* the submissions call t has started and that have not settled:
\* processConcurrently's pending submitPayload promises, and the
\* processWithRetry calls of retryFailedPayloads that have not returned
OutstandingOf(t) ==
    IF t.op = "batch" /\ t.pc = "con_save"
    THEN {t.valid[k].id : k \in {j \in 1..Len(t.valid) : t.valid[j].st = "pending"}}
    ELSE IF t.op = "retryFailed"
    THEN {c.id : c \in {d \in Running : d.parent = t.cid /\ d.pc # "done"}}
    ELSE {}

\* C29: in concurrent mode a processBatch or retryFailedPayloads call never
\* has more than maxConcurrent submissions outstanding, and those of
\* retryFailedPayloads all belong to the chunk in progress.
C29_BoundedFanOut ==
    \A t \in Running :
        /\ Cardinality(OutstandingOf(t)) <= maxConcurrent
        /\ t.op = "retryFailed" => OutstandingOf(t) \subseteq Range(t.valid)

\* how many monitorTransaction(id, tx) tasks are running
RECURSIVE CountCopies(_)
CountCopies(S) ==
    IF S = {} THEN 0
    ELSE LET t == CHOOSE x \in S : TRUE
         IN CopiesIn(t, tasks) + CountCopies(S \ {t})
MonitorsOf(id, tx) ==
    CountCopies({t \in Running : t.op = "monitor" /\ t.id = id /\ t.tx = tx})

\* C30: at any instant at most one monitorTransaction task is running for
\* a payload and a transaction hash, however often submitPayload is
\* repeated on the SUBMITTED record.
C30_OneMonitorPerTransaction ==
    \A id \in Ids : \A tx \in 1..Len(chain) : MonitorsOf(id, tx) <= 1

\* the monitorTransaction tasks of payload id whose confirmation wait has
\* returned or thrown and that have not ended
PastWait(id) ==
    {t \in Running : t.op = "monitor" /\ t.id = id
                     /\ t.pc \in {"mon_find", "mon_catch_find", "mon_save"}}

\* the payloads of the runs of Init
MonitoredIds == {1}

\* C31: a monitorTransaction task writes the record only with its final
\* save and ends with it; that write stores CONFIRMED with the block of the
\* receipt and no error on a successful receipt, FAILED 'Transaction
\* reverted on-chain' on a reverted one, FAILED 'Transaction monitoring
\* failed: ...' after an exception; and once the wait of a monitor has
\* completed, the monitor ends and the record is not SUBMITTED at that
\* moment (the store calls of the monitor are assumed to return).
C31_MonitorWritesOnce ==
    /\ [][ \A t \in Running :
             (t.op = "monitor" /\ Steps(t))
               => IF t.pc # "mon_save"
                  THEN store' = store
                  ELSE /\ MonitorsOf(t.id, t.tx)' = MonitorsOf(t.id, t.tx) - 1
                       /\ LET w == store'[t.id]
                          IN IF t.msg # NoMsg
                             THEN /\ w.status = "FAILED"
                                  /\ includes(w.err, <<"monitoring", "failed:">>)
                             ELSE IF chain[t.tx].receipt = "ok"
                             THEN /\ w.status = "CONFIRMED"
                                  /\ w.block = t.tx
                                  /\ w.err = NoMsg
                             ELSE /\ w.status = "FAILED"
                                  /\ w.err = MsgReverted ]_vars
    /\ \A id \in MonitoredIds :
         (PastWait(id) # {}) ~> (store[id].status # "SUBMITTED")
    /\ \A id \in MonitoredIds :
         (PastWait(id) # {}) ~> (PastWait(id) = {})

\* C31 happens: the monitor of the stored transaction has ended and left
\* the record CONFIRMED in the block of its receipt
C31_Witness ==
    /\ store[1].status = "CONFIRMED"
    /\ store[1].tx # 0 /\ store[1].block = store[1].tx
    /\ chain[store[1].tx].receipt = "ok"
    /\ \A t \in Running : t.op # "monitor"

\* a record retrySubmission may reset, as the claim has it
MayBeReset(p) ==
    /\ p.status = "FAILED"
    /\ p.attempts < maxRetries
    /\ categorizeFailure(p.err) = "RETRYABLE"

\* C32: when the findOne of a retrySubmission call returns, the call goes
\* on to save the record as PENDING only if the record is FAILED, below the
\* maximum of attempts and failed with a RETRYABLE error; otherwise it
\* raises, and it never writes the record.
C32_ResetOnlyRetryableFailed ==
    [][ \A t \in Running :
          (t.op = "retry" /\ t.pc = "rs_find" /\ Steps(t))
            => IF MayBeReset(store[t.id])
               THEN \E u \in BagToSet(tasks') :
                       /\ u.op = "retry" /\ u.pc = "rs_save"
                       /\ u.p.status = "PENDING"
               ELSE /\ returned'.op = "retry" /\ ~returned'.ok
                    /\ ~ \E u \in BagToSet(tasks') : u.op = "retry" /\ u.pc = "rs_save"
                    /\ store' = store ]_vars

\* C33: a record stored SUBMITTED or CONFIRMED has an empty errorMessage.
C33_SuccessClearsError ==
    \A i \in Ids :
        store[i].status \in {"SUBMITTED", "CONFIRMED"} => store[i].err = NoMsg

\* the items of processBatch call t whose submitPayload has been started
\* (the record object carries SUBMITTED) and that have no result yet
InProgress(t) ==
    {k \in 1..Len(t.valid) :
        /\ t.valid[k].p.status = "SUBMITTED"
        /\ ~ \E j \in 1..Len(t.results) : t.results[j].id = t.valid[k].id}

MarkedPermanent(p) ==
    /\ p.status = "FAILED"
    /\ \/ p.err \in {MsgExpired, MsgExpiredBeforeBatch, MsgNoSignature}
       \/ categorizeFailure(p.err) = "PERMANENT"

\* C35: getRetryablePayloads, called by retryFailedPayloads(), returns no
\* record that was marked FAILED as PERMANENT, and processWithRetry makes no
\* transaction for such a record.
C35_PermanentNeverRetried ==
    [][ \A t \in Running :
          Steps(t) =>
            /\ (t.op = "retryFailed" /\ t.pc = "rf_find" /\ t.ids = <<>>)
                 => \A u \in BagToSet(tasks') :
                       (u.op = "retryFailed" /\ u.cid = t.cid)
                         => \A i \in Range(u.valid) \cup Range(u.queue) :
                               ~MarkedPermanent(store[i])
            /\ (t.op = "pwr" /\ t.pc = "pwr_find" /\ Len(chain') > Len(chain))
                 => ~MarkedPermanent(store[t.id]) ]_vars

\* C36: a write that leaves a record CONFIRMED, made on an up-to-date read,
\* stores the block of the receipt of the transaction the record's
\* transactionHash names (the block of transaction h is modelled as h), and
\* that receipt has status 1: a monitor does not confirm a record that
\* carries the hash of another transaction.
C36_ConfirmedBlockMatchesHash ==
    [][ \A id \in Ids :
          (store'[id].status = "CONFIRMED" /\ FreshWriters(id) # {})
            => /\ store'[id].tx # 0
               /\ store'[id].block = store'[id].tx
               /\ chain[store'[id].tx].receipt = "ok" ]_vars


\* the processBatch calls that have marked payload id in-flight in their
\* validation and have not yet cleared their marks
BatchesHolding(id) ==
    {t \in Running : /\ t.op = "batch"
                     /\ \E k \in 1..Len(t.valid) : t.valid[k].id = id}

\* C37: while a processBatch call that marked payload X in-flight is still
\* processing X, X stays marked in-flight: no other operation on X removes
\* the mark before that call has finished.
C37_MarkHeldWhileProcessing ==
    \A id \in Ids : BatchesHolding(id) # {} => id \in inFlight


\* C38: with preserveOrder on and no processing going on, the in-flight set
\* only grows, and on the step at which a getPayloadsForBatching call returns
\* its result holds no payload that was in-flight before and the set grows by
\* exactly that result: every payload an earlier call returned is in the set,
\* so the results of any two calls, overlapping or not, are disjoint.
C38_SelectionsDisjoint ==
    [][ preserveOrder =>
          /\ inFlight \subseteq inFlight'
          /\ \A t \in Running :
               (t.op = "select" /\ t.pc = "gp_find" /\ Steps(t))
                 => /\ Range(returned'.results) \cap inFlight = {}
                    /\ inFlight' = inFlight \cup Range(returned'.results) ]_vars

\* C38 happens: a second call returned payloads while the payloads the first
\* call returned were in-flight
C38_Witness ==
    /\ preserveOrder
    /\ ops = 2
    /\ returned.op = "select" /\ returned.pc = "done"
    /\ returned.results # <<>>
    /\ inFlight \ Range(returned.results) # {}


\* record i is FAILED with a retryable error, has attempts left and stays
\* recent up to the end of the run
StaysRetryable(i) == IsRetryable(i, MaxTime)

\* C39: a FAILED record that is retryable, recent and below the attempt
\* maximum is eventually in the result of one of the repeated
\* getRetryablePayloads() calls, whatever the other stored records are.
C39_RetryableEventuallyReturned ==
    \A i \in RetryPayloads :
        (i \in Ids /\ StaysRetryable(i))
          ~> (returned.op = "getRetryable" /\ i \in Range(returned.results))


\* C40: every write made on an up-to-date read leaves a SUBMITTED or
\* CONFIRMED record with a transactionHash and does not set a
\* transactionHash back to null, and no step gives a record a blockNumber
\* without leaving it CONFIRMED.  (An overwrite by a task that read the
\* record before another write is a lost update and is not counted.)
C40_HashAndBlockKept ==
    [][ \A id \in Ids :
          /\ (store[id].block = 0 /\ store'[id].block # 0)
                => store'[id].status = "CONFIRMED"
          /\ FreshWriters(id) # {}
                => /\ store'[id].status \in {"SUBMITTED", "CONFIRMED"}
                        => store'[id].tx # 0
                   /\ store[id].tx # 0 => store'[id].tx # 0 ]_vars

====
